---- MODULE Spec2Model ----
(***************************************************************************)
(* The Baostock data-access facade of a-share-mcp: the session context     *)
(* (src/src/utils.py), the fetch helpers and the inline facade methods     *)
(* (src/src/baostock_data_source.py), run by one or several callers        *)
(* against the provider's process-wide login state, and the calendar tools *)
(* (src/src/tools/date_utils.py) that are built on get_trade_dates.        *)
(*                                                                         *)
(* Python strings are sequences of one-character strings, so that lower(), *)
(* the "in" test and f-string formatting are computed, not assumed.        *)
(***************************************************************************)
EXTENDS Integers, Sequences, FiniteSets, TLC

(***************************************************************************)
(* Bounds of the model.                                                    *)
(***************************************************************************)
\* Facade calls that can be in flight (the callers of the tool layer).
NumCalls == 2
\* Rows a provider cursor holds at most.
MaxRows == 2

Calls == 1..NumCalls

(***************************************************************************)
(* Strings.                                                                *)
(***************************************************************************)
UPPER == <<"A", "B", "C", "D", "E", "F", "G", "H", "I", "J", "K", "L", "M", "N", "O", "P", "Q", "R", "S", "T", "U", "V", "W", "X", "Y", "Z">>
LOWER == <<"a", "b", "c", "d", "e", "f", "g", "h", "i", "j", "k", "l", "m", "n", "o", "p", "q", "r", "s", "t", "u", "v", "w", "x", "y", "z">>

\* str.lower() on one character.
LowerChar(ch) ==
    IF \E i \in 1..Len(UPPER) : UPPER[i] = ch
    THEN LOWER[CHOOSE i \in 1..Len(UPPER) : UPPER[i] = ch]
    ELSE ch

\* str.lower()
Lower(s) == [i \in 1..Len(s) |-> LowerChar(s[i])]

\* Python's  sub in s  on strings.
Contains(sub, s) ==
    \E i \in 0..(Len(s) - Len(sub)) : SubSeq(s, i + 1, i + Len(sub)) = sub

\* The literal of the "no data" test, baostock_data_source.py:70.
NO_RECORD_FOUND == <<"n", "o", " ", "r", "e", "c", "o", "r", "d", " ", "f", "o", "u", "n", "d">>

\* Status codes of the provider.
CODE_OK == <<"0">>
CODE_NO_DATA == <<"1", "0", "0", "0", "2">>
CODE_NOT_LOGIN == <<"1", "0", "0", "0", "1", "0", "0", "1">>

\* Status messages the provider is drawn from.
MsgSuccess == <<"s", "u", "c", "c", "e", "s", "s">>
MsgNoRecordMixed == <<"N", "o", " ", "R", "e", "c", "o", "r", "d", " ", "F", "o", "u", "n", "d">>
MsgNoRecordUpper == <<"q", "u", "e", "r", "y", ":", " ", "N", "O", " ", "R", "E", "C", "O", "R", "D", " ", "F", "O", "U", "N", "D", "!">>
MsgNetwork == <<"n", "e", "t", "w", "o", "r", "k", " ", "e", "r", "r", "o", "r">>
MsgNearMiss == <<"n", "o", " ", "r", "e", "c", "o", "r", "d", "s", " ", "f", "o", "u", "n", "d">>
MsgReset == <<"c", "o", "n", "n", "e", "c", "t", "i", "o", "n", " ", "r", "e", "s", "e", "t">>

\* Texts of the facade's own messages.  The f-strings of the source also
\* carry the data-type label and the query arguments, which no decision
\* reads; they are left out of the texts here.
PfxLoginFailed == <<"B", "a", "o", "s", "t", "o", "c", "k", " ", "l", "o", "g", "i", "n", " ", "f", "a", "i", "l", "e", "d", ":", " ">>
PfxNoData == <<"N", "o", " ", "d", "a", "t", "a", " ", "f", "o", "u", "n", "d", ".", " ", "B", "a", "o", "s", "t", "o", "c", "k", " ", "m", "s", "g", ":", " ">>
PfxApiError == <<"B", "a", "o", "s", "t", "o", "c", "k", " ", "A", "P", "I", " ", "e", "r", "r", "o", "r", ":", " ">>
PfxCode == <<" ", "(", "c", "o", "d", "e", ":", " ">>
SfxCode == <<")">>
MsgEmptySet == <<"N", "o", " ", "d", "a", "t", "a", " ", "f", "o", "u", "n", "d", " ", "(", "e", "m", "p", "t", "y", " ", "r", "e", "s", "u", "l", "t", " ", "s", "e", "t", ")", ".">>
PfxUnexpected == <<"U", "n", "e", "x", "p", "e", "c", "t", "e", "d", " ", "e", "r", "r", "o", "r", ":", " ">>
MsgFieldsNotStr == <<"A", "l", "l", " ", "i", "t", "e", "m", "s", " ", "i", "n", " ", "t", "h", "e", " ", "f", "i", "e", "l", "d", "s", " ", "l", "i", "s", "t", " ", "m", "u", "s", "t", " ", "b", "e", " ", "s", "t", "r", "i", "n", "g", "s", ".">>
MsgNoneAvailable == <<"N", "o", "n", "e", " ", "o", "f", " ", "t", "h", "e", " ", "r", "e", "q", "u", "e", "s", "t", "e", "d", " ", "f", "i", "e", "l", "d", "s", " ", "a", "r", "e", " ", "a", "v", "a", "i", "l", "a", "b", "l", "e", ".">>
MsgShape == <<"c", "o", "l", "u", "m", "n", "s", " ", "d", "o", " ", "n", "o", "t", " ", "m", "a", "t", "c", "h", " ", "d", "a", "t", "a">>

\* Column names.
F_code == <<"c", "o", "d", "e">>
F_date == <<"d", "a", "t", "e">>
F_close == <<"c", "l", "o", "s", "e">>

(***************************************************************************)
(* Exceptions.  An exception is its class and its message, str(e).         *)
(***************************************************************************)
Exc(t, m) == [type |-> t, msg |-> m]
NoExc == Exc("none", <<>>)

\* The base class of each exception class the model uses:
\* data_source_interface.py:12-24 for the facade's own classes, Python's
\* built-in hierarchy for the others.
Parent(t) ==
    CASE t = "LoginError" -> "DataSourceError"
      [] t = "NoDataFoundError" -> "DataSourceError"
      [] t = "DataSourceError" -> "Exception"
      [] t = "ValueError" -> "Exception"
      [] t = "UnicodeDecodeError" -> "ValueError"
      [] t = "ConnectionResetError" -> "Exception"
      [] OTHER -> "Exception"

RECURSIVE IsInstance(_, _)
IsInstance(t, cls) ==
    IF t = cls THEN TRUE
    ELSE IF t = "Exception" \/ t = "none" THEN FALSE
    ELSE IsInstance(Parent(t), cls)

\* The classes of the first except clause of every facade method.
KNOWN_ERRORS == {"LoginError", "NoDataFoundError", "DataSourceError", "ValueError"}

(***************************************************************************)
(* The provider (the baostock library), an external collaborator: what its *)
(* calls can answer.                                                        *)
(***************************************************************************)
CODE_FAIL == CODE_NOT_LOGIN

\* What bs.login() returns.
LoginResults ==
    { [error_code |-> CODE_OK, error_msg |-> MsgSuccess],
      [error_code |-> CODE_FAIL, error_msg |-> MsgNetwork],
      [error_code |-> CODE_NO_DATA, error_msg |-> MsgReset] }
NoLogin == [error_code |-> <<>>, error_msg |-> <<>>]

\* What a call of the provider can raise instead of returning.
ProviderExcs ==
    { Exc("ConnectionResetError", MsgReset),
      Exc("UnicodeDecodeError", MsgNetwork) }

\* Rows are lists of cells; the rows of one cursor have one width.
RowsOfWidth(w) ==
    IF w = 1 THEN {<<"x">>, <<"y">>} ELSE {<<"x", "y">>, <<"y", "x">>}
DataOfWidth(w) == UNION {[1..n -> RowsOfWidth(w)] : n \in 0..MaxRows}

\* The column lists a cursor reports in rs.fields.
ProviderFields == {<<F_code>>, <<F_code, F_date>>, <<F_date, F_code>>}

\* A cursor: the status, the rows it holds, how many it has yielded, fields.
Cursor(code, msg, data, fields) ==
    [error_code |-> code, error_msg |-> msg, data |-> data, cur |-> 0,
     fields |-> fields]
NoCursor == Cursor(<<>>, <<>>, <<>>, <<>>)

ErrMsgs == {MsgNoRecordMixed, MsgNoRecordUpper, MsgNetwork, MsgNearMiss}

\* What a query function returns.
Cursors ==
    { Cursor(CODE_OK, MsgSuccess, d, f) :
        d \in DataOfWidth(1) \cup DataOfWidth(2), f \in ProviderFields }
    \cup
    { Cursor(code, msg, <<>>, <<>>) :
        code \in {CODE_NO_DATA, CODE_FAIL}, msg \in ErrMsgs }

\* The status a cursor takes when fetching a later page fails inside next().
PageFailures ==
    { [error_code |-> CODE_FAIL, error_msg |-> MsgNetwork],
      [error_code |-> CODE_FAIL, error_msg |-> MsgNoRecordMixed] }

Reverse(s) == [i \in 1..Len(s) |-> s[Len(s) + 1 - i]]

\* The columns a cursor can report once its last row has been read: the
\* cursor is read by convention, and may settle its fields with the data.
FinalFields(rs) == {rs.fields, Reverse(rs.fields)}

(***************************************************************************)
(* The facade's methods and their arguments.                               *)
(***************************************************************************)
\* The three fetch helpers stand for the methods that delegate to them.
Methods ==
    { "_fetch_financial_data", "_fetch_index_constituent_data",
      "_fetch_macro_data", "get_historical_k_data", "get_stock_basic_info",
      "get_dividend_data", "get_adjust_factor_data",
      "get_performance_express_report", "get_forecast_report",
      "get_stock_industry", "get_trade_dates", "get_all_stock" }

\* An item of a caller's field list: a string, or something else (an int).
Str(s) == [isstr |-> TRUE, v |-> s]
NonStr == [isstr |-> FALSE, v |-> <<>>]

\* Optional[List[str]]: None, or a list of items.
NoFields == [given |-> FALSE, items |-> <<>>]
Fields(items) == [given |-> TRUE, items |-> items]

FieldArgs ==
    { NoFields, Fields(<<>>), Fields(<<Str(F_code)>>),
      Fields(<<Str(F_date), Str(F_code)>>), Fields(<<Str(F_close)>>),
      Fields(<<Str(F_code), NonStr>>), Fields(<<NonStr>>) }

\* DEFAULT_K_FIELDS, cut to the columns of the model.
DEFAULT_K_FIELDS == <<F_date, F_code, F_close>>

\* ",".join(names)
RECURSIVE Join(_)
Join(names) ==
    IF names = <<>> THEN <<>>
    ELSE IF Len(names) = 1 THEN names[1]
    ELSE names[1] \o <<",">> \o Join(Tail(names))

(***************************************************************************)
(* The decisions of the code, as operators.                                *)
(***************************************************************************)
\* Fault variant of LoginFailed: the login result is not checked.
LoginFailed_Unchecked(lg) == FALSE

\* utils.py:67  if lg.error_code != '0'
LoginFailed(lg) == lg.error_code # CODE_OK

\* utils.py:70  LoginError(f"Baostock login failed: {lg.error_msg}")
LoginErrorOf(lg) == Exc("LoginError", PfxLoginFailed \o lg.error_msg)

\* Fault variant of IsNoData: the message is matched without lower().
IsNoData_CaseSensitive(rs) ==
    \/ Contains(NO_RECORD_FOUND, rs.error_msg)
    \/ rs.error_code = CODE_NO_DATA

\* baostock_data_source.py:70
\*   "no record found" in rs.error_msg.lower() or rs.error_code == '10002'
IsNoData(rs) ==
    \/ Contains(NO_RECORD_FOUND, Lower(rs.error_msg))
    \/ rs.error_code = CODE_NO_DATA

ApiError(rs) ==
    Exc("DataSourceError",
        PfxApiError \o rs.error_msg \o PfxCode \o rs.error_code \o SfxCode)

\* The status check after the query of the fetch helpers and of the inline
\* methods other than get_trade_dates: what it raises, NoExc when it passes.
StatusError(rs) ==
    IF rs.error_code = CODE_OK THEN NoExc
    ELSE IF IsNoData(rs) THEN Exc("NoDataFoundError", PfxNoData \o rs.error_msg)
    ELSE ApiError(rs)

\* Fault variant of TradeDatesStatusError: the check of the other methods.
TradeDatesStatusError_Generic(rs) == StatusError(rs)

\* The status check of get_trade_dates.
TradeDatesStatusError(rs) ==
    IF rs.error_code = CODE_OK THEN NoExc ELSE ApiError(rs)

StatusCheck(m, rs) ==
    IF m = "get_trade_dates" THEN TradeDatesStatusError(rs) ELSE StatusError(rs)

\* Fault variant of EmptyResult: the empty check is missing.
EmptyResult_Unchecked(data_list) == FALSE

\* if not data_list
EmptyResult(data_list) == data_list = <<>>

\* pd.DataFrame(data_list, columns=rs.fields): a table, and the ValueError
\* pandas raises when the rows are not as wide as the column list.
NoTable == [isTable |-> FALSE, rows |-> <<>>, columns |-> <<>>]
ShapeMismatch(data_list, columns) ==
    \E i \in 1..Len(data_list) : Len(data_list[i]) # Len(columns)
DataFrame(data_list, columns) ==
    [isTable |-> TRUE, rows |-> data_list, columns |-> columns]

\* Fault variant of AvailableCols: the table's columns that are requested,
\* in the table's order.
AvailableCols_ProviderOrder(fields, df) ==
    LET Asked(name) ==
            \E i \in 1..Len(fields.items) :
                fields.items[i].isstr /\ fields.items[i].v = name
    IN  SelectSeq(df.columns, Asked)

\* [col for col in fields if col in result_df.columns]
AvailableCols(fields, df) ==
    LET In(it) == it.isstr /\ \E i \in 1..Len(df.columns) : df.columns[i] = it.v
        kept == SelectSeq(fields.items, In)
    IN  [j \in 1..Len(kept) |-> kept[j].v]

\* result_df[available_cols]
SelectColumns(df, cols) ==
    LET At(name) == CHOOSE i \in 1..Len(df.columns) : df.columns[i] = name
    IN  [isTable |-> TRUE,
         rows |-> [r \in 1..Len(df.rows) |->
                     [j \in 1..Len(cols) |-> df.rows[r][At(cols[j])]]],
         columns |-> cols]

AllStrings(items) == \A i \in 1..Len(items) : items[i].isstr

\* Fault variant of FormatFields: the isinstance check is missing, and the
\* items that are strings are joined.
FormatFields_Unvalidated(fields, default_fields) ==
    IF ~fields.given \/ fields.items = <<>> THEN <<NoExc, Join(default_fields)>>
    ELSE LET strs == SelectSeq(fields.items, LAMBDA it : it.isstr)
         IN  <<NoExc, Join([i \in 1..Len(strs) |-> strs[i].v])>>

\* _format_fields: <<the ValueError or NoExc, the joined field string>>
FormatFields(fields, default_fields) ==
    IF ~fields.given \/ fields.items = <<>> THEN <<NoExc, Join(default_fields)>>
    ELSE IF ~AllStrings(fields.items)
         THEN <<Exc("ValueError", MsgFieldsNotStr), <<>>>>
    ELSE <<NoExc, Join([i \in 1..Len(fields.items) |-> fields.items[i].v])>>

\* Fault variant of KnownError: every exception is re-raised as it is.
KnownError_Any(e) == TRUE

\* except (LoginError, NoDataFoundError, DataSourceError, ValueError)
KnownError(e) == \E cls \in KNOWN_ERRORS : IsInstance(e.type, cls)

\* What the two except clauses of a facade method raise for e.
Reraised(e) ==
    IF KnownError(e) THEN e
    ELSE Exc("DataSourceError", PfxUnexpected \o e.msg)

(***************************************************************************)
(* Dates: datetime values are records of year, month and day; the strings  *)
(* the tools exchange are sequences of characters, compared as Python      *)
(* compares strings.                                                       *)
(***************************************************************************)
DIGITS == <<"0", "1", "2", "3", "4", "5", "6", "7", "8", "9">>

IsDigit(ch) == \E i \in 1..Len(DIGITS) : DIGITS[i] = ch
DigitValue(ch) == (CHOOSE i \in 1..Len(DIGITS) : DIGITS[i] = ch) - 1

\* The characters of date strings in code-point order: "-" is below "0".
CHARS == <<"-">> \o DIGITS
Ord(ch) == CHOOSE i \in 1..Len(CHARS) : CHARS[i] = ch

\* Python's  a < b  and  a <= b  on strings of these characters.
RECURSIVE StrLt(_, _)
StrLt(a, b) ==
    IF b = <<>> THEN FALSE
    ELSE IF a = <<>> THEN TRUE
    ELSE IF Head(a) = Head(b) THEN StrLt(Tail(a), Tail(b))
    ELSE Ord(Head(a)) < Ord(Head(b))
StrLe(a, b) == a = b \/ StrLt(a, b)

\* The decimal digits of n, zero-padded to width w: f"{n:0{w}d}".
RECURSIVE Pad(_, _)
Pad(n, w) ==
    IF w <= 1 /\ n < 10 THEN <<DIGITS[n + 1]>>
    ELSE Pad(n \div 10, w - 1) \o <<DIGITS[(n % 10) + 1]>>

\* int(s) of a string of digits.
RECURSIVE ToInt(_)
ToInt(s) ==
    IF s = <<>> THEN 0
    ELSE 10 * ToInt(SubSeq(s, 1, Len(s) - 1)) + DigitValue(s[Len(s)])

Date(y, m, d) == [y |-> y, m |-> m, d |-> d]

IsLeap(y) == y % 4 = 0 /\ (y % 100 # 0 \/ y % 400 = 0)
DAYS_IN_MONTH == <<31, 28, 31, 30, 31, 30, 31, 31, 30, 31, 30, 31>>
DaysInMonth(y, m) == IF m = 2 /\ IsLeap(y) THEN 29 ELSE DAYS_IN_MONTH[m]

\* date.toordinal(): the days from 0001-01-01, which is day 1.
DaysBeforeYear(y) ==
    LET p == y - 1 IN p * 365 + p \div 4 - p \div 100 + p \div 400
RECURSIVE DaysBeforeMonth(_, _)
DaysBeforeMonth(y, m) ==
    IF m = 1 THEN 0 ELSE DaysBeforeMonth(y, m - 1) + DaysInMonth(y, m - 1)
ToOrdinal(dt) == DaysBeforeYear(dt.y) + DaysBeforeMonth(dt.y, dt.m) + dt.d

\* The years the dates of the model lie in, and the dates of those years.
Years == 2023..2024
AllDates ==
    {Date(y, m, d) : y \in Years, m \in 1..12, d \in 1..31} \cap
    {dt \in [y : Years, m : 1..12, d : 1..31] : dt.d <= DaysInMonth(dt.y, dt.m)}

\* date.fromordinal(n)
FromOrdinal(n) == CHOOSE dt \in AllDates : ToOrdinal(dt) = n

\* d + timedelta(days=n)
PlusDays(dt, n) == FromOrdinal(ToOrdinal(dt) + n)

\* datetime.replace(day=d)
ReplaceDay(dt, d) == Date(dt.y, dt.m, d)

\* datetime.strftime("%Y-%m-%d")
Strftime(dt) == Pad(dt.y, 4) \o <<"-">> \o Pad(dt.m, 2) \o <<"-">> \o Pad(dt.d, 2)

\* datetime.strptime(s, "%Y-%m-%d"): <<the ValueError or NoExc, the date>>.
\* %Y is four digits, %m and %d are one or two; a month outside 1..12 or a
\* day outside 1..31 does not match the format, a day beyond the month's
\* last is out of range.
MsgNoMatch == <<"t", "i", "m", "e", " ", "d", "a", "t", "a", " ", "d", "o", "e", "s", " ", "n", "o", "t", " ", "m", "a", "t", "c", "h", " ", "f", "o", "r", "m", "a", "t">>
MsgDayRange == <<"d", "a", "y", " ", "i", "s", " ", "o", "u", "t", " ", "o", "f", " ", "r", "a", "n", "g", "e", " ", "f", "o", "r", " ", "m", "o", "n", "t", "h">>
NoDate == Date(0, 0, 0)
Strptime(s) ==
    LET dashes == {i \in 1..Len(s) : s[i] = "-"}
        i1 == CHOOSE i \in dashes : \A j \in dashes : i <= j
        i2 == CHOOSE i \in dashes : \A j \in dashes : j <= i
        ys == SubSeq(s, 1, i1 - 1)
        ms == SubSeq(s, i1 + 1, i2 - 1)
        ds == SubSeq(s, i2 + 1, Len(s))
        AllDigits(t) == \A i \in 1..Len(t) : IsDigit(t[i])
        shaped == /\ Cardinality(dashes) = 2
                  /\ Len(ys) = 4 /\ Len(ms) \in 1..2 /\ Len(ds) \in 1..2
                  /\ AllDigits(ys) /\ AllDigits(ms) /\ AllDigits(ds)
    IN  IF ~shaped THEN <<Exc("ValueError", MsgNoMatch), NoDate>>
        ELSE IF ToInt(ms) \notin 1..12 \/ ToInt(ds) \notin 1..31
                  \/ ToInt(ys) < 1
        THEN <<Exc("ValueError", MsgNoMatch), NoDate>>
        ELSE IF ToInt(ds) > DaysInMonth(ToInt(ys), ToInt(ms))
        THEN <<Exc("ValueError", MsgDayRange), NoDate>>
        ELSE <<NoExc, Date(ToInt(ys), ToInt(ms), ToInt(ds))>>

(***************************************************************************)
(* The provider's trading calendar, and bs.query_trade_dates.              *)
(***************************************************************************)
F_calendar_date == <<"c", "a", "l", "e", "n", "d", "a", "r", "_", "d", "a", "t", "e">>
F_is_trading_day == <<"i", "s", "_", "t", "r", "a", "d", "i", "n", "g", "_", "d", "a", "y">>
TRADE_DATE_FIELDS == <<F_calendar_date, F_is_trading_day>>
FLAG_OPEN == <<"1">>
FLAG_CLOSED == <<"0">>
MsgBadDate == <<"d", "a", "t", "e", " ", "f", "o", "r", "m", "a", "t", " ", "e", "r", "r", "o", "r">>

\* date.weekday(): Monday is 0.
Weekday(dt) == (ToOrdinal(dt) + 6) % 7

Between(first, last) ==
    {dt \in AllDates :
        ToOrdinal(first) <= ToOrdinal(dt) /\ ToOrdinal(dt) <= ToOrdinal(last)}

\* The calendars the provider is drawn from: the dates it has a record for,
\* and those of them it flags as trading days.
\*   weekdays: every Monday to Friday of the two years;
\*   sparse:   two trading days, fifteen weeks apart;
\*   short:    records for twenty days only, Monday to Friday trading.
CalendarNames == {"weekdays", "sparse", "short"}
Covered(cal) ==
    IF cal = "short" THEN Between(Date(2024, 1, 1), Date(2024, 1, 20))
    ELSE AllDates
TradingDays(cal) ==
    IF cal = "sparse" THEN {Date(2023, 12, 1), Date(2024, 3, 15)}
    ELSE {dt \in Covered(cal) : Weekday(dt) < 5}

\* bs.query_trade_dates(start_date, end_date): one record per covered date of
\* the range, in date order, each the date and its flag; a status other than
\* "0" when a bound is not a date.
QueryTradeDates(cal, start_date, end_date) ==
    LET s == Strptime(start_date)
        e == Strptime(end_date)
        in_range == {dt \in Covered(cal) :
                        /\ ToOrdinal(s[2]) <= ToOrdinal(dt)
                        /\ ToOrdinal(dt) <= ToOrdinal(e[2])}
        Rank(dt) == Cardinality({o \in in_range : ToOrdinal(o) <= ToOrdinal(dt)})
        rows == [i \in 1..Cardinality(in_range) |->
                    LET dt == CHOOSE o \in in_range : Rank(o) = i
                    IN  <<Strftime(dt), IF dt \in TradingDays(cal)
                                        THEN FLAG_OPEN ELSE FLAG_CLOSED>>]
    IN  IF s[1] # NoExc \/ e[1] # NoExc
        THEN Cursor(CODE_FAIL, MsgBadDate, <<>>, <<>>)
        ELSE Cursor(CODE_OK, MsgSuccess, rows, TRADE_DATE_FIELDS)

(***************************************************************************)
(* The calendar tools of date_utils.py, as operators on what the facade's  *)
(* get_trade_dates gave: res is a result of the form of NoResult.          *)
(***************************************************************************)
STR_YES == <<"Y", "e", "s">>
STR_NO == <<"N", "o">>
PfxError == <<"E", "r", "r", "o", "r", ":", " ">>

\* The bounds of the tools' queries.
FIRST_DAY == 1
LAST_QUERIED_DAY == 28
WINDOW_DAYS == 30

HasColumn(df, name) == \E i \in 1..Len(df.columns) : df.columns[i] = name
ColumnAt(df, name) == CHOOSE i \in 1..Len(df.columns) : df.columns[i] = name

\* 'is_trading_day' if 'is_trading_day' in df.columns else df.columns[-1]
FlagCol(df) ==
    IF HasColumn(df, F_is_trading_day) THEN ColumnAt(df, F_is_trading_day)
    ELSE Len(df.columns)
\* 'calendar_date' if 'calendar_date' in df.columns else df.columns[0]
DayCol(df) ==
    IF HasColumn(df, F_calendar_date) THEN ColumnAt(df, F_calendar_date)
    ELSE 1

\* f"Error: {e}"
ErrorString(e) == PfxError \o e.msg

\* The query range of get_latest_trading_date: <<start_date, end_date>>.
LatestRange(now) ==
    <<Strftime(ReplaceDay(now, FIRST_DAY)),
      Strftime(ReplaceDay(now, LAST_QUERIED_DAY))>>

\* Fault variant of LatestCandidate: dates after today are taken too.
LatestCandidate_NoCutoff(dstr, today, latest) ==
    latest = <<>> \/ StrLt(latest, dstr)

\* dstr <= today and (latest_trading_date is None or dstr > latest_trading_date)
\* None is the empty string here: the two behave alike in this test and in
\* the truth test that follows the loop.
LatestCandidate(dstr, today, latest) ==
    StrLe(dstr, today) /\ (latest = <<>> \/ StrLt(latest, dstr))

\* for dstr in valid_trading_days: ...
RECURSIVE LatestLoop(_, _, _)
LatestLoop(valid, today, latest) ==
    IF valid = <<>> THEN latest
    ELSE LatestLoop(Tail(valid), today,
                    IF LatestCandidate(Head(valid), today, latest)
                    THEN Head(valid) ELSE latest)

\* get_latest_trading_date, after its query.  A table without one of the
\* two columns raises KeyError, which the except clause turns into today.
GetLatestTradingDate(now, res) ==
    LET today == Strftime(now)
        df == res.table
    IN  IF res.kind # "table" THEN Strftime(now)
        ELSE IF ~HasColumn(df, F_is_trading_day)
                  \/ ~HasColumn(df, F_calendar_date)
        THEN Strftime(now)
        ELSE LET open == SelectSeq(df.rows,
                             LAMBDA row :
                                 row[ColumnAt(df, F_is_trading_day)] = FLAG_OPEN)
                 valid_trading_days ==
                     [i \in 1..Len(open) |->
                         open[i][ColumnAt(df, F_calendar_date)]]
                 latest_trading_date ==
                     LatestLoop(valid_trading_days, today, <<>>)
             IN  IF latest_trading_date # <<>> THEN latest_trading_date
                 ELSE today

\* Fault variant of IsTradingDayError: a failed query counts as "No".
IsTradingDayError_No(e) == STR_NO

\* is_trading_day's except clause.
IsTradingDayError(e) == ErrorString(e)

\* is_trading_day, after its query.
IsTradingDay(date, res) ==
    LET df == res.table
    IN  IF res.kind # "table" THEN IsTradingDayError(res.exc)
        ELSE IF df.rows = <<>> THEN STR_NO
        ELSE IF df.rows[1][FlagCol(df)] = FLAG_OPEN THEN STR_YES ELSE STR_NO

\* DataFrame.sort_values(by=day_col): the rows in ascending order of the
\* column, by insertion.
RECURSIVE Insert(_, _, _)
Insert(row, sorted, col) ==
    IF sorted = <<>> THEN <<row>>
    ELSE IF StrLt(row[col], Head(sorted)[col]) THEN <<row>> \o sorted
    ELSE <<Head(sorted)>> \o Insert(row, Tail(sorted), col)
RECURSIVE SortValues(_, _)
SortValues(rows, col) ==
    IF rows = <<>> THEN <<>>
    ELSE Insert(rows[Len(rows)], SortValues(SubSeq(rows, 1, Len(rows) - 1), col),
                col)

\* Fault variant of PreviousWindowStart: the window is twice as long.
PreviousWindowStart_Wide(d) == Strftime(PlusDays(d, -(2 * WINDOW_DAYS)))

\* (d - timedelta(days=30)).strftime("%Y-%m-%d")
PreviousWindowStart(d) == Strftime(PlusDays(d, -WINDOW_DAYS))

\* (d + timedelta(days=30)).strftime("%Y-%m-%d")
NextWindowEnd(d) == Strftime(PlusDays(d, WINDOW_DAYS))

\* The query range of previous_trading_day: <<what strptime raises or NoExc,
\* start, end>>.
PreviousRange(date) ==
    LET p == Strptime(date)
    IN  IF p[1] # NoExc THEN <<p[1], <<>>, <<>>>>
        ELSE <<NoExc, PreviousWindowStart(p[2]), date>>

\* The query range of next_trading_day.
NextRange(date) ==
    LET p == Strptime(date)
    IN  IF p[1] # NoExc THEN <<p[1], <<>>, <<>>>>
        ELSE <<NoExc, date, NextWindowEnd(p[2])>>

\* Fault variant of IsBefore: the input date itself counts.
IsBefore_OrEqual(day, date) == StrLe(day, date)

\* df[day_col] < date
IsBefore(day, date) == StrLt(day, date)

\* df[day_col] > date
IsAfter(day, date) == StrLt(date, day)

\* previous_trading_day, after its query.
PreviousTradingDay(date, res) ==
    LET df == res.table
        candidates ==
            SortValues(SelectSeq(df.rows,
                           LAMBDA row : /\ row[FlagCol(df)] = FLAG_OPEN
                                        /\ IsBefore(row[DayCol(df)], date)),
                       DayCol(df))
    IN  IF res.kind # "table" THEN ErrorString(res.exc)
        ELSE IF df.rows = <<>> THEN date
        ELSE IF candidates = <<>> THEN date
        ELSE candidates[Len(candidates)][DayCol(df)]

\* next_trading_day, after its query.
NextTradingDay(date, res) ==
    LET df == res.table
        candidates ==
            SortValues(SelectSeq(df.rows,
                           LAMBDA row : /\ row[FlagCol(df)] = FLAG_OPEN
                                        /\ IsAfter(row[DayCol(df)], date)),
                       DayCol(df))
    IN  IF res.kind # "table" THEN ErrorString(res.exc)
        ELSE IF df.rows = <<>> THEN date
        ELSE IF candidates = <<>> THEN date
        ELSE candidates[1][DayCol(df)]

\* The tools, the range each queries and what each returns.
Tools ==
    {"get_latest_trading_date", "is_trading_day", "previous_trading_day",
     "next_trading_day"}
ToolRange(op, now, date) ==
    CASE op = "get_latest_trading_date" ->
            <<NoExc, LatestRange(now)[1], LatestRange(now)[2]>>
      [] op = "is_trading_day" -> <<NoExc, date, date>>
      [] op = "previous_trading_day" -> PreviousRange(date)
      [] OTHER -> NextRange(date)
ToolResult(op, now, date, res) ==
    CASE op = "get_latest_trading_date" -> GetLatestTradingDate(now, res)
      [] op = "is_trading_day" -> IsTradingDay(date, res)
      [] op = "previous_trading_day" -> PreviousTradingDay(date, res)
      [] OTHER -> NextTradingDay(date, res)

(***************************************************************************)
(* State.                                                                  *)
(***************************************************************************)
VARIABLES
    calls,      \* calls[c]: the frame of facade call c (see Idle)
    session,    \* the provider's process-wide login state: logged in or not
    stdout,     \* what the process's standard output descriptor points to
    tool        \* the frame of the calendar tool being served (see ToolIdle)

vars == <<calls, session, stdout, tool>>

\* The targets of the standard output descriptor: the stream the process was
\* started with, and os.devnull.
STDOUT_ORIGINAL == "original"
DEVNULL == "devnull"

NoResult == [kind |-> "none", table |-> NoTable, exc |-> NoExc]

\* The frame of a call that has not begun.  The fields from logins on are
\* history: what the call has done to the provider so far.  saved is what
\* the call's saved_stdout_fd refers to while it holds one.
Idle ==
    [pc |-> "idle", method |-> "none", fields |-> NoFields, formatted |-> <<>>,
     lg |-> NoLogin, rs |-> NoCursor, data_list |-> <<>>,
     exc |-> NoExc, ret |-> NoTable, result |-> NoResult,
     logins |-> 0, logouts |-> 0, queries |-> 0, reads |-> 0,
     bodyEnded |-> FALSE, bodyExc |-> NoExc, bodyRet |-> NoTable,
     checked |-> NoLogin, statusExc |-> NoExc, drained |-> FALSE,
     logoutExc |-> NoExc, caught |-> NoExc, stale |-> FALSE,
     loginExc |-> NoExc, passed |-> <<>>, saved |-> "none"]

\* The frame of the calendar tools when none is being served.  now is what
\* datetime.now() gave, date the caller's argument, cal the calendar the
\* provider has; a date that strptime rejects leaves its error in parseExc.
\* period and code are the arguments of the tools that make no query,
\* python the interpreter that runs them, raised what such a tool raised,
\* again what the tool returns for its own result.
ToolIdle ==
    [pc |-> "idle", op |-> "none", now |-> NoDate, date |-> <<>>,
     cal |-> "none", start_date |-> <<>>, end_date |-> <<>>,
     parseExc |-> NoExc, result |-> <<>>,
     period |-> "none", middle_date |-> <<>>, code |-> <<>>,
     python |-> "none", raised |-> NoExc, again |-> <<>>]

Init ==
    /\ calls = [c \in Calls |-> Idle]
    /\ session = FALSE
    /\ stdout = STDOUT_ORIGINAL
    /\ tool = ToolIdle

Put(c, r) == calls' = [calls EXCEPT ![c] = r]

\* Fault variant of EndBody: no try/finally around the yield, so that an
\* exception of the body skips the logout.
EndBody_NoFinally(r, exc, ret) ==
    [r EXCEPT !.pc = IF exc = NoExc THEN "logout" ELSE "handler",
              !.exc = exc, !.ret = ret,
              !.bodyEnded = TRUE, !.bodyExc = exc, !.bodyRet = ret]

\* The with statement's exit: the body has ended, by return (ret) or by an
\* exception (exc); the finally clause of utils.py:73-75 runs next.
EndBody(r, exc, ret) ==
    [r EXCEPT !.pc = "logout", !.exc = exc, !.ret = ret,
              !.bodyEnded = TRUE, !.bodyExc = exc, !.bodyRet = ret]

\* Fault variant of ToHandler: the exception passes the finally clause.
ToHandler_ViaLogout(r, exc) == [r EXCEPT !.pc = "logout", !.exc = exc]

\* An exception leaves the try block of the facade method without passing
\* the finally clause: it was raised before the with body was entered.
ToHandler(r, exc) == [r EXCEPT !.pc = "handler", !.exc = exc]

\* Fault variant of BodyResult: the table is labelled with the caller's
\* field list where one was given, not with rs.fields.
BodyResult_CallerColumns(m, fields, data_list, rs) ==
    IF EmptyResult(data_list)
    THEN <<Exc("NoDataFoundError", MsgEmptySet), NoTable>>
    ELSE IF fields.given /\ fields.items # <<>>
    THEN <<NoExc, DataFrame(data_list,
                            [i \in 1..Len(fields.items) |-> fields.items[i].v])>>
    ELSE <<NoExc, DataFrame(data_list, rs.fields)>>

(***************************************************************************)
(* The body after draining: the empty check, the table, and the column     *)
(* selection of get_stock_basic_info.  <<what it raises, what it returns>> *)
(***************************************************************************)
BodyResult(m, fields, data_list, rs) ==
    IF EmptyResult(data_list)
    THEN <<Exc("NoDataFoundError", MsgEmptySet), NoTable>>
    ELSE IF ShapeMismatch(data_list, rs.fields)
    THEN <<Exc("ValueError", MsgShape), NoTable>>
    ELSE LET result_df == DataFrame(data_list, rs.fields)
             available_cols == AvailableCols(fields, result_df)
         IN  IF m = "get_stock_basic_info" /\ fields.given /\ fields.items # <<>>
             THEN IF available_cols = <<>>
                  THEN <<Exc("ValueError", MsgNoneAvailable), NoTable>>
                  ELSE <<NoExc, SelectColumns(result_df, available_cols)>>
             ELSE <<NoExc, result_df>>

(***************************************************************************)
(* The steps of a facade call c.  Ms, Fs, Ls, Cs, Ps, Es are the sets the  *)
(* caller's arguments and the provider's answers are drawn from.           *)
(***************************************************************************)
\* The caller enters a facade method with its arguments; the method runs up
\* to its with statement (get_historical_k_data formats its fields first).
\* serial: the transport hands over one request at a time.
Begin(c, Ms, Fs, serial) ==
    /\ calls[c].pc = "idle"
    /\ serial => \A d \in Calls \ {c} : calls[d].pc = "idle"
    /\ \E m \in Ms :
       \E f \in (IF m \in {"get_historical_k_data", "get_stock_basic_info"}
                 THEN Fs ELSE {NoFields}) :
          LET ff == IF m = "get_historical_k_data"
                    THEN FormatFields(f, DEFAULT_K_FIELDS)
                    ELSE <<NoExc, <<>>>>
              r == [Idle EXCEPT !.method = m, !.fields = f, !.formatted = ff[2]]
          IN  Put(c, IF ff[1] # NoExc THEN ToHandler(r, ff[1])
                     ELSE [r EXCEPT !.pc = "login"])
    /\ UNCHANGED <<session, stdout, tool>>

\* The descriptor dance around a provider call, utils.py:52-65 and 77-90:
\* os.dup saves what descriptor 1 points to now, os.dup2 points it to
\* devnull, the provider call runs, os.dup2 points it back to what was saved.
\* The restore is a plain statement after the call, so that a call that
\* raises skips it.  The value is what descriptor 1 points to afterwards.
Redirected(saved) == DEVNULL
Restored(saved) == saved
AfterProviderCall(current, raised) ==
    LET saved_stdout_fd == current
    IN  IF raised THEN Redirected(saved_stdout_fd)
        ELSE Restored(saved_stdout_fd)

\* baostock_login_context up to its yield: bs.login() inside the redirection
\* of standard output, and the code check.
Login(c, Ls, Es) ==
    /\ calls[c].pc = "login"
    /\ UNCHANGED tool
    /\ LET r == [calls[c] EXCEPT !.logins = @ + 1]
       IN  \/ \E lg \in Ls :
                /\ session' = IF lg.error_code = CODE_OK THEN TRUE ELSE session
                /\ stdout' = AfterProviderCall(stdout, FALSE)
                /\ Put(c, IF LoginFailed(lg)
                          THEN ToHandler([r EXCEPT !.lg = lg], LoginErrorOf(lg))
                          ELSE [r EXCEPT !.lg = lg, !.pc = "query"])
           \/ \E e \in Es :
                /\ Put(c, ToHandler([r EXCEPT !.loginExc = e], e))
                /\ stdout' = AfterProviderCall(stdout, TRUE)
                /\ session' = session

\* The query function is called (get_historical_k_data passes it the
\* formatted field string) and the status of its cursor is checked.
Query(c, Cs, Es) ==
    /\ calls[c].pc = "query"
    /\ LET r == [calls[c] EXCEPT !.queries = @ + 1, !.stale = @ \/ ~session,
                                 !.passed = calls[c].formatted]
       IN  \/ \E rs \in Cs :
                LET e == StatusCheck(r.method, rs)
                    q == [r EXCEPT !.rs = rs, !.statusExc = e,
                                   !.checked = [error_code |-> rs.error_code,
                                                error_msg |-> rs.error_msg]]
                IN  Put(c, IF e # NoExc THEN EndBody(q, e, NoTable)
                           ELSE [q EXCEPT !.pc = "drain"])
           \/ \E e \in Es : Put(c, EndBody(r, e, NoTable))
    /\ UNCHANGED <<session, stdout, tool>>

\* One round of  while rs.next(): data_list.append(rs.get_row_data()).
RsNext(c, Ps, Es) ==
    /\ calls[c].pc = "drain"
    /\ LET r == [calls[c] EXCEPT !.stale = @ \/ ~session]
           rs == r.rs
       IN  \/ /\ rs.cur < Len(rs.data)
              /\ Put(c, [r EXCEPT !.rs.cur = @ + 1, !.reads = @ + 1,
                                  !.data_list = Append(@, rs.data[rs.cur + 1])])
           \/ /\ rs.cur = Len(rs.data)
              /\ \E f \in FinalFields(rs) :
                    Put(c, [r EXCEPT !.rs.fields = f, !.drained = TRUE,
                                     !.pc = "build"])
           \/ \E p \in Ps :
                 Put(c, [r EXCEPT !.rs.error_code = p.error_code,
                                  !.rs.error_msg = p.error_msg,
                                  !.drained = TRUE, !.pc = "build"])
           \/ \E e \in Es : Put(c, EndBody(r, e, NoTable))
    /\ UNCHANGED <<session, stdout, tool>>

\* The rest of the with body, up to its return or raise.
Build(c) ==
    /\ calls[c].pc = "build"
    /\ LET r == calls[c]
           b == BodyResult(r.method, r.fields, r.data_list, r.rs)
       IN  Put(c, EndBody(r, b[1], b[2]))
    /\ UNCHANGED <<session, stdout, tool>>

\* The finally clause of baostock_login_context: bs.logout() inside the
\* redirection of standard output; it returns or raises; then the with statement ends as the body or the logout ended.
Logout(c, Es) ==
    /\ calls[c].pc = "logout"
    /\ UNCHANGED tool
    /\ LET r == [calls[c] EXCEPT !.logouts = @ + 1]
       IN  \/ /\ session' = FALSE
              /\ stdout' = AfterProviderCall(stdout, FALSE)
              /\ Put(c, IF r.exc # NoExc THEN [r EXCEPT !.pc = "handler"]
                        ELSE [r EXCEPT !.pc = "done",
                                       !.result = [kind |-> "table",
                                                   table |-> r.ret,
                                                   exc |-> NoExc]])
           \/ \E e \in Es :
                /\ session' \in BOOLEAN
                /\ stdout' = AfterProviderCall(stdout, TRUE)
                /\ Put(c, [r EXCEPT !.pc = "handler", !.exc = e,
                                    !.ret = NoTable, !.logoutExc = e])

\* The except clauses of the facade method.
Handler(c) ==
    /\ calls[c].pc = "handler"
    /\ Put(c, [calls[c] EXCEPT !.pc = "done", !.caught = calls[c].exc,
                               !.exc = NoExc,
                               !.result = [kind |-> "error", table |-> NoTable,
                                           exc |-> Reraised(calls[c].exc)]])
    /\ UNCHANGED <<session, stdout, tool>>

\* The caller takes the result; the frame is gone.
Return(c) ==
    /\ calls[c].pc = "done"
    /\ Put(c, Idle)
    /\ UNCHANGED <<session, stdout, tool>>

(***************************************************************************)
(* Spec: the transport serves one request at a time (stdio).               *)
(***************************************************************************)
Next ==
    \E c \in Calls :
        \/ Begin(c, Methods, FieldArgs, TRUE)
        \/ Login(c, LoginResults, ProviderExcs)
        \/ Query(c, Cursors, ProviderExcs)
        \/ RsNext(c, PageFailures, ProviderExcs)
        \/ Build(c)
        \/ Logout(c, ProviderExcs)
        \/ Handler(c)
        \/ Return(c)

Spec == Init /\ [][Next]_vars

(***************************************************************************)
(* SpecConc: the hosting transport serves requests concurrently, so the    *)
(* steps of the calls interleave; nothing in the facade or in the session  *)
(* context holds a lock.  The arguments and the provider's answers are     *)
(* drawn from smaller sets.                                                *)
(***************************************************************************)
ConcMethods == {"_fetch_financial_data", "get_trade_dates"}
ConcLoginResults ==
    { [error_code |-> CODE_OK, error_msg |-> MsgSuccess],
      [error_code |-> CODE_FAIL, error_msg |-> MsgNetwork] }
ConcCursors ==
    { Cursor(CODE_OK, MsgSuccess, <<<<"x">>>>, <<F_code>>),
      Cursor(CODE_FAIL, MsgNetwork, <<>>, <<>>) }
ConcExcs == {Exc("ConnectionResetError", MsgReset)}

NextConc ==
    \E c \in Calls :
        \/ Begin(c, ConcMethods, {NoFields}, FALSE)
        \/ Login(c, ConcLoginResults, ConcExcs)
        \/ Query(c, ConcCursors, ConcExcs)
        \/ RsNext(c, {}, ConcExcs)
        \/ Build(c)
        \/ Logout(c, ConcExcs)
        \/ Handler(c)
        \/ Return(c)

SpecConc == Init /\ [][NextConc]_vars

(***************************************************************************)
(* SpecCal: the calendar tools of date_utils.py, served one request at a   *)
(* time.  A tool computes its query range, calls the facade's              *)
(* get_trade_dates, whose steps are those above, and turns what it gets    *)
(* into its return value.                                                  *)
(***************************************************************************)
\* The facade call frame the tool's get_trade_dates call runs in.
ToolFrame == CHOOSE c \in Calls : \A d \in Calls : c <= d

\* A tool is called: it reads the clock and computes its query range;
\* previous_trading_day and next_trading_day return at once when strptime
\* rejects the date.
ToolCall(Ops, Nows, Dates, Cals) ==
    /\ tool.pc = "idle"
    /\ \A c \in Calls : calls[c].pc = "idle"
    /\ \E op \in Ops, cal \in Cals :
       \E now \in (IF op = "get_latest_trading_date" THEN Nows ELSE {NoDate}) :
       \E date \in (IF op = "get_latest_trading_date" THEN {<<>>} ELSE Dates) :
          LET rg == ToolRange(op, now, date)
              t == [ToolIdle EXCEPT !.op = op, !.now = now, !.date = date,
                                    !.cal = cal]
          IN  tool' = IF rg[1] # NoExc
                      THEN [t EXCEPT !.pc = "returned", !.parseExc = rg[1],
                                     !.result = ErrorString(rg[1])]
                      ELSE [t EXCEPT !.pc = "calling", !.start_date = rg[2],
                                     !.end_date = rg[3]]
    /\ UNCHANGED <<calls, session, stdout>>

\* active_data_source.get_trade_dates(start_date=..., end_date=...) is entered.
ToolGetTradeDates ==
    /\ tool.pc = "calling"
    /\ Begin(ToolFrame, {"get_trade_dates"}, {NoFields}, TRUE)

\* What bs.query_trade_dates can answer to the tool's range: the records of
\* the provider's calendar, or a failure status.
CalendarAnswers ==
    { QueryTradeDates(tool.cal, tool.start_date, tool.end_date),
      Cursor(CODE_FAIL, MsgNetwork, <<>>, <<>>) }

\* get_trade_dates has returned or raised; the tool computes its return value.
ToolFinish ==
    /\ tool.pc = "calling"
    /\ calls[ToolFrame].pc = "done"
    /\ tool' = [tool EXCEPT !.pc = "returned",
                            !.result = ToolResult(tool.op, tool.now, tool.date,
                                                  calls[ToolFrame].result)]
    /\ UNCHANGED <<calls, session, stdout>>

\* The caller takes the tool's return value; the frames are gone.
ToolEnd ==
    /\ tool.pc = "returned"
    /\ tool' = ToolIdle
    /\ calls' = [calls EXCEPT ![ToolFrame] = Idle]
    /\ UNCHANGED <<session, stdout>>

\* What the clock and the callers' arguments are drawn from.
CalNows == {Date(2024, 1, 14), Date(2024, 1, 30), Date(2024, 6, 1)}
CalDates ==
    { Strftime(Date(2024, 1, 12)), Strftime(Date(2024, 1, 14)),
      Strftime(Date(2024, 1, 15)), Strftime(Date(2024, 1, 25)),
      <<"2", "0", "2", "4", "-", "0", "2", "-", "3", "0">> }
CalLoginResults ==
    { [error_code |-> CODE_OK, error_msg |-> MsgSuccess],
      [error_code |-> CODE_FAIL, error_msg |-> MsgNetwork] }
CalPageFailures == {[error_code |-> CODE_FAIL, error_msg |-> MsgNetwork]}
CalExcs == {Exc("ConnectionResetError", MsgReset)}

NextCal ==
    \/ ToolCall(Tools, CalNows, CalDates, CalendarNames)
    \/ ToolGetTradeDates
    \/ Login(ToolFrame, CalLoginResults, CalExcs)
    \/ Query(ToolFrame, CalendarAnswers, CalExcs)
    \/ RsNext(ToolFrame, CalPageFailures, CalExcs)
    \/ Build(ToolFrame)
    \/ Logout(ToolFrame, CalExcs)
    \/ Handler(ToolFrame)
    \/ ToolFinish
    \/ ToolEnd

SpecCal == Init /\ [][NextCal]_vars

(***************************************************************************)
(* Properties.                                                             *)
(***************************************************************************)
InBody(r) == r.pc \in {"query", "drain", "build"}
LoginSucceeded(r) == r.lg.error_code = CODE_OK

\* C1: for every facade call whose provider login succeeded, bs.logout() is
\* called exactly once, after the body has ended, on every exit path of the
\* body (return, NoDataFoundError, DataSourceError, ValueError, any other
\* exception): no logout before the body's end, none twice, and a finished
\* call has made exactly one.
C1_LogoutOnceAfterBody ==
    \A c \in Calls :
        LET r == calls[c]
        IN  /\ r.logouts <= 1
            /\ r.logouts = 1 => r.bodyEnded /\ LoginSucceeded(r)
            /\ InBody(r) => r.logouts = 0 /\ ~r.bodyEnded
            /\ LoginSucceeded(r) /\ r.pc \in {"handler", "done"} => r.logouts = 1

\* A call whose body raised an exception outside the facade's own classes
\* has finished, the logout made.
C1_Witness ==
    \E c \in Calls :
        /\ calls[c].pc = "done"
        /\ calls[c].bodyExc.type = "ConnectionResetError"
        /\ calls[c].logouts = 1

\* C2: when bs.login() returns a code other than "0", the session context
\* raises LoginError carrying the login message, and the body never runs: no
\* query is made and no row is read in that call.
C2_FailedLoginNoBody ==
    \A c \in Calls :
        LET r == calls[c]
        IN  r.logins = 1 /\ r.lg # NoLogin /\ r.lg.error_code # CODE_OK =>
              /\ ~InBody(r) /\ ~r.bodyEnded
              /\ r.queries = 0 /\ r.reads = 0 /\ r.rs = NoCursor
              /\ r.pc = "handler" =>
                    /\ r.exc.type = "LoginError"
                    /\ Contains(r.lg.error_msg, r.exc.msg)
              /\ r.pc = "done" =>
                    /\ r.result.kind = "error"
                    /\ r.result.exc.type = "LoginError"
                    /\ Contains(r.lg.error_msg, r.result.exc.msg)

\* A call has finished with the LoginError of a failed login.
C2_Witness ==
    \E c \in Calls :
        /\ calls[c].pc = "done"
        /\ calls[c].lg.error_code = CODE_FAIL
        /\ calls[c].result.exc.type = "LoginError"
        /\ calls[c].queries = 0

\* C3: a failure of bs.logout() during the release is not raised: when the
\* body raised E and the logout then fails, the with statement still ends
\* with E; when the body returned and the logout fails, the body's result is
\* still returned.
C3_LogoutFailureNotRaised ==
    \A c \in Calls :
        LET r == calls[c]
        IN  r.pc = "done" /\ r.bodyEnded /\ r.logoutExc # NoExc =>
              IF r.bodyExc # NoExc
              THEN r.caught = r.bodyExc
              ELSE r.result.kind = "table" /\ r.result.table = r.bodyRet

\* The status messages of the model that hold "no record found" in some
\* letter case, listed one by one.
NoRecordMsgs == {MsgNoRecordMixed, MsgNoRecordUpper}

\* The class the classifier rule gives a status other than "0".
RuleClass(st) ==
    IF st.error_msg \in NoRecordMsgs \/ st.error_code = CODE_NO_DATA
    THEN "NoDataFoundError" ELSE "DataSourceError"

\* The status check of call frame r found a status other than "0".
BadStatusAtCheck(r) == r.checked # NoLogin /\ r.checked.error_code # CODE_OK

\* C4: in the fetch helpers and the inline K-line, basic-info, dividend,
\* adjust-factor, report, industry and all-stock methods, a cursor whose
\* status code is not "0" makes the body raise DataSourceError, unless its
\* message holds "no record found" in any letter case or its code is
\* "10002": then NoDataFoundError.  No row is read, and the error is the
\* call's outcome when the logout returns.
C4_StatusClassified ==
    \A c \in Calls :
        LET r == calls[c]
        IN  r.method # "get_trade_dates" /\ BadStatusAtCheck(r) =>
              /\ r.bodyEnded /\ r.reads = 0 /\ ~r.drained
              /\ r.bodyExc.type = RuleClass(r.checked)
              /\ r.pc = "done" /\ r.logoutExc = NoExc =>
                    r.result.kind = "error" /\ r.result.exc = r.bodyExc

\* An upper-case "NO RECORD FOUND" under a code other than "10002" has been
\* classified as NoDataFoundError.
C4_Witness ==
    \E c \in Calls :
        /\ calls[c].method = "get_dividend_data"
        /\ calls[c].checked = [error_code |-> CODE_FAIL,
                               error_msg |-> MsgNoRecordUpper]
        /\ calls[c].pc = "done"
        /\ calls[c].result.exc.type = "NoDataFoundError"

\* C5: no facade method returns a table with zero rows: with status "0" and
\* no row drained the body raises NoDataFoundError, and a table is returned
\* only when at least one row was drained.
C5_NoEmptyTable ==
    \A c \in Calls :
        LET r == calls[c]
        IN  /\ r.ret.isTable => Len(r.ret.rows) >= 1 /\ r.reads >= 1
            /\ r.result.kind = "table" =>
                  /\ r.result.table.isTable
                  /\ Len(r.result.table.rows) >= 1
                  /\ r.reads >= 1
            /\ r.bodyEnded /\ r.drained /\ r.rs.error_code = CODE_OK
                 /\ r.reads = 0 =>
                  /\ r.bodyExc.type = "NoDataFoundError"
                  /\ r.pc = "done" /\ r.logoutExc = NoExc =>
                        r.result.kind = "error" /\ r.result.exc = r.bodyExc

\* A call whose cursor had status "0" and no row has finished with
\* NoDataFoundError.
C5_Witness ==
    \E c \in Calls :
        /\ calls[c].pc = "done"
        /\ calls[c].drained /\ calls[c].reads = 0
        /\ calls[c].rs.error_code = CODE_OK
        /\ calls[c].result.exc.type = "NoDataFoundError"

\* The classes that are LoginError, NoDataFoundError, DataSourceError or
\* ValueError, listed one by one (UnicodeDecodeError is a ValueError).
FourClasses ==
    {"LoginError", "NoDataFoundError", "DataSourceError", "ValueError",
     "UnicodeDecodeError"}

\* C6: every failure of a facade method reaches the caller as a LoginError,
\* NoDataFoundError, DataSourceError or ValueError: an exception of one of
\* the four that leaves the try block is passed on with class and message
\* unchanged, any other (raised by login, query, row read or logout) is
\* raised as DataSourceError whose message holds the original's message.
C6_TypedFailures ==
    \A c \in Calls :
        LET r == calls[c]
        IN  /\ r.pc = "done" => r.result.kind \in {"table", "error"}
            /\ r.pc = "done" /\ r.result.kind = "table" => r.caught = NoExc
            /\ r.pc = "done" /\ r.result.kind = "error" =>
                  /\ r.caught # NoExc
                  /\ r.result.exc.type \in FourClasses
                  /\ r.caught.type \in FourClasses => r.result.exc = r.caught
                  /\ r.caught.type \notin FourClasses =>
                        /\ r.result.exc.type = "DataSourceError"
                        /\ Contains(r.caught.msg, r.result.exc.msg)
                  /\ r.logoutExc # NoExc => r.caught = r.logoutExc
                  /\ r.logoutExc = NoExc /\ r.bodyEnded => r.caught = r.bodyExc

\* An exception of the logout outside the four classes has reached the
\* caller as DataSourceError.
C6_Witness ==
    \E c \in Calls :
        /\ calls[c].pc = "done"
        /\ calls[c].logoutExc.type = "ConnectionResetError"
        /\ calls[c].result.exc.type = "DataSourceError"

\* C7: the outcome is classified on the cursor's status as it stands after
\* draining: when the status has become other than "0" while rows were read,
\* the call fails with DataSourceError or NoDataFoundError and returns no
\* table of the rows drained so far.
C7_FinalStatusClassified ==
    \A c \in Calls :
        LET r == calls[c]
        IN  r.pc = "done" /\ r.drained /\ r.rs.error_code # CODE_OK
              /\ r.logoutExc = NoExc =>
                /\ r.result.kind = "error"
                /\ r.result.exc.type \in {"DataSourceError", "NoDataFoundError"}

\* C8 as stated: get_trade_dates classifies a status other than "0" as the
\* other methods do: NoDataFoundError for "no record found" or "10002",
\* DataSourceError for the rest.
C8_TradeDatesSameRule ==
    \A c \in Calls :
        LET r == calls[c]
        IN  r.method = "get_trade_dates" /\ BadStatusAtCheck(r) =>
              r.bodyExc.type = RuleClass(r.checked)

\* C8: get_trade_dates raises DataSourceError for every cursor status other
\* than "0", also when the message holds "no record found" or the code is
\* "10002"; its NoDataFoundError comes only from status "0" with no row.
C8_TradeDatesAlwaysDataSourceError ==
    \A c \in Calls :
        LET r == calls[c]
        IN  r.method = "get_trade_dates" =>
              /\ BadStatusAtCheck(r) =>
                    /\ r.bodyEnded /\ r.reads = 0
                    /\ r.bodyExc.type = "DataSourceError"
                    /\ Contains(r.checked.error_msg, r.bodyExc.msg)
                    /\ r.pc = "done" /\ r.logoutExc = NoExc =>
                          r.result.kind = "error" /\ r.result.exc = r.bodyExc
              /\ r.bodyExc.type = "NoDataFoundError" =>
                    r.checked.error_code = CODE_OK /\ r.drained /\ r.reads = 0

\* get_trade_dates has finished with DataSourceError on "No Record Found".
C8_Witness ==
    \E c \in Calls :
        /\ calls[c].method = "get_trade_dates"
        /\ calls[c].checked.error_msg = MsgNoRecordMixed
        /\ calls[c].pc = "done"
        /\ calls[c].result.exc.type = "DataSourceError"

\* The names of a column list, as a set.
Range(seq) == {seq[i] : i \in 1..Len(seq)}

\* get_stock_basic_info called with a non-empty field list.
SelectsColumns(r) ==
    r.method = "get_stock_basic_info" /\ r.fields.given /\ r.fields.items # <<>>

\* C9 as stated: on success every facade method returns one row per row the
\* cursor yielded, in that order, drained until next() was false, under the
\* columns the cursor reports after draining, not the caller's field list.
C9_TableIsCursor ==
    \A c \in Calls :
        LET r == calls[c]
        IN  r.result.kind = "table" =>
              /\ r.drained
              /\ r.result.table.rows = SubSeq(r.rs.data, 1, r.rs.cur)
              /\ r.result.table.columns = r.rs.fields

\* C9: on success a facade method returns one row per row the cursor
\* yielded, in that order, drained until next() was false; its columns are
\* the cursor's fields as read after draining, not the caller's field list,
\* except for get_stock_basic_info called with a non-empty field list, whose
\* columns are fields of that list that the cursor reports.
C9_TableIsCursorButBasicInfo ==
    \A c \in Calls :
        LET r == calls[c]
            t == r.result.table
        IN  r.result.kind = "table" =>
              /\ r.drained
              /\ r.reads = r.rs.cur
              /\ Len(t.rows) = r.rs.cur
              /\ \A i \in 1..Len(t.rows) : Len(t.rows[i]) = Len(t.columns)
              /\ IF SelectsColumns(r)
                 THEN /\ Range(t.columns) \subseteq Range(r.rs.fields)
                      /\ Range(t.columns) \subseteq
                           {r.fields.items[i].v : i \in 1..Len(r.fields.items)}
                 ELSE /\ t.rows = SubSeq(r.rs.data, 1, r.rs.cur)
                      /\ t.columns = r.rs.fields

\* get_historical_k_data, asked for <<date, code>>, has returned two rows in
\* the cursor's order under the cursor's columns <<code, date>>.
C9_Witness ==
    \E c \in Calls :
        /\ calls[c].method = "get_historical_k_data"
        /\ calls[c].fields = Fields(<<Str(F_date), Str(F_code)>>)
        /\ calls[c].result.kind = "table"
        /\ calls[c].result.table.columns = <<F_code, F_date>>
        /\ calls[c].result.table.rows = <<<<"x", "y">>, <<"y", "x">>>>
        /\ calls[c].rs.cur = Len(calls[c].rs.data)

\* C10: with facade calls in flight concurrently, no query and no row read
\* of a call runs while the provider is logged out.
C10_NoUseAfterTeardown ==
    \A c \in Calls : ~calls[c].stale

\* The session context of call frame r has been exited, by return or raise.
ContextExited(r) == r.logins = 1 /\ r.pc \in {"handler", "done"}

\* C11: standard output is redirected only for the duration of bs.login()
\* and bs.logout(): it points to the original stream while the body runs and
\* after the session context has exited by any path, the paths where login
\* returns a failure code and where login or logout raises included.
C11_StdoutOnlyAroundProviderCalls ==
    \A c \in Calls :
        LET r == calls[c]
        IN  InBody(r) \/ r.pc = "logout" \/ ContextExited(r) =>
              stdout = STDOUT_ORIGINAL

\* A field list that holds an item that is not a string.
HasNonStr(f) == f.given /\ \E i \in 1..Len(f.items) : ~f.items[i].isstr

\* Where names[i] begins in the comma-separated string of names, less one.
RECURSIVE Offset(_, _)
Offset(names, i) ==
    IF i = 1 THEN 0 ELSE Offset(names, i - 1) + Len(names[i - 1]) + 1

\* s is the names, in their order, with one comma between neighbours.
IsCommaSeparated(s, names) ==
    LET n == Len(names)
    IN  /\ n >= 1
        /\ Len(s) = Offset(names, n) + Len(names[n])
        /\ \A i \in 1..n :
              SubSeq(s, Offset(names, i) + 1, Offset(names, i) + Len(names[i]))
                = names[i]
        /\ \A i \in 2..n : s[Offset(names, i)] = ","

\* "date,code,close"
DefaultKFieldString ==
    <<"d", "a", "t", "e", ",", "c", "o", "d", "e", ",", "c", "l", "o", "s", "e">>

\* C12: get_historical_k_data with a non-empty field list that holds an item
\* that is not a string fails with ValueError, before any login or query;
\* with no field list or an empty one the provider is passed the default
\* K-line fields; otherwise it is passed the caller's fields, in the caller's
\* order, separated by commas.
C12_KLineFieldString ==
    \A c \in Calls :
        LET r == calls[c]
            f == r.fields
        IN  r.method = "get_historical_k_data" =>
              /\ HasNonStr(f) =>
                    /\ r.pc \in {"handler", "done"}
                    /\ r.logins = 0 /\ r.queries = 0
                    /\ r.pc = "handler" => r.exc.type = "ValueError"
                    /\ r.pc = "done" =>
                          /\ r.result.kind = "error"
                          /\ r.result.exc.type = "ValueError"
              /\ r.queries = 1 =>
                    /\ ~HasNonStr(f)
                    /\ IF ~f.given \/ f.items = <<>>
                       THEN r.passed = DefaultKFieldString
                       ELSE IsCommaSeparated(r.passed,
                               [i \in 1..Len(f.items) |-> f.items[i].v])

\* get_historical_k_data, asked for <<date, code>>, has passed "date,code" to
\* the provider.
C12_Witness ==
    \E c \in Calls :
        /\ calls[c].method = "get_historical_k_data"
        /\ calls[c].fields = Fields(<<Str(F_date), Str(F_code)>>)
        /\ calls[c].queries = 1
        /\ calls[c].passed = <<"d", "a", "t", "e", ",", "c", "o", "d", "e">>

\* The positions of the caller's field list whose item is a column the
\* cursor reports.
Occurring(r) ==
    {i \in 1..Len(r.fields.items) :
        r.fields.items[i].isstr /\ r.fields.items[i].v \in Range(r.rs.fields)}

\* The j-th least position of a set of positions.
Nth(I, j) == CHOOSE i \in I : Cardinality({k \in I : k <= i}) = j

\* The body of call frame r got as far as building its table.
TableBuilt(r) ==
    /\ r.bodyEnded /\ r.drained /\ r.reads >= 1
    /\ \A i \in 1..Len(r.data_list) : Len(r.data_list[i]) = Len(r.rs.fields)

\* C13: get_stock_basic_info with a non-empty field list returns a table
\* whose columns are exactly the requested fields that occur among the
\* cursor's columns, in the caller's order, each column with its cells; when
\* none of the requested fields occurs the body raises ValueError, the
\* logout is still made, and ValueError is the call's outcome when the
\* logout returns.
C13_BasicInfoColumns ==
    \A c \in Calls :
        LET r == calls[c]
            I == Occurring(r)
            t == r.bodyRet
            At(name) == CHOOSE k \in 1..Len(r.rs.fields) : r.rs.fields[k] = name
        IN  SelectsColumns(r) /\ TableBuilt(r) =>
              /\ I # {} =>
                    /\ r.bodyExc = NoExc /\ t.isTable
                    /\ Len(t.columns) = Cardinality(I)
                    /\ \A j \in 1..Len(t.columns) :
                          /\ t.columns[j] = r.fields.items[Nth(I, j)].v
                          /\ \A i \in 1..Len(t.rows) :
                                t.rows[i][j] = r.data_list[i][At(t.columns[j])]
                    /\ r.pc = "done" /\ r.logoutExc = NoExc =>
                          r.result.kind = "table" /\ r.result.table = t
              /\ I = {} =>
                    /\ r.bodyExc.type = "ValueError" /\ ~t.isTable
                    /\ r.pc \in {"handler", "done"} => r.logouts = 1
                    /\ r.pc \in {"handler", "done"} /\ r.logoutExc = NoExc =>
                          ~session
                    /\ r.pc = "done" /\ r.logoutExc = NoExc =>
                          /\ r.result.kind = "error"
                          /\ r.result.exc.type = "ValueError"

\* get_stock_basic_info, asked for <<date, code>> of a cursor that reports
\* <<code, date>>, has returned the columns <<date, code>>.
C13_Witness ==
    \E c \in Calls :
        /\ calls[c].method = "get_stock_basic_info"
        /\ calls[c].fields = Fields(<<Str(F_date), Str(F_code)>>)
        /\ calls[c].rs.fields = <<F_code, F_date>>
        /\ calls[c].data_list = <<<<"x", "y">>>>
        /\ calls[c].pc = "done"
        /\ calls[c].result.kind = "table"
        /\ calls[c].result.table.columns = <<F_date, F_code>>
        /\ calls[c].result.table.rows = <<<<"y", "x">>>>

\* get_stock_basic_info, asked for <<close>>, which the cursor does not
\* report, has finished with ValueError after its logout.
C13_WitnessNone ==
    \E c \in Calls :
        /\ calls[c].method = "get_stock_basic_info"
        /\ calls[c].fields = Fields(<<Str(F_close)>>)
        /\ calls[c].reads >= 1
        /\ calls[c].pc = "done"
        /\ calls[c].logouts = 1
        /\ calls[c].result.exc.type = "ValueError"

\* C14: get_stock_basic_info with a field list that holds an item that is
\* not a string fails with ValueError, also when other items of the list are
\* columns the cursor reports: it returns no table, and a body that got as
\* far as building its table raises ValueError.
C14_BasicInfoNonStringRejected ==
    \A c \in Calls :
        LET r == calls[c]
        IN  r.method = "get_stock_basic_info" /\ HasNonStr(r.fields) =>
              /\ r.result.kind # "table"
              /\ ~r.bodyRet.isTable
              /\ TableBuilt(r) => r.bodyExc.type = "ValueError"

(***************************************************************************)
(* Properties of the calendar tools.                                       *)
(***************************************************************************)
\* The day number of a date string.
DayNumber(s) == ToOrdinal(Strptime(s)[2])

\* A tool has returned after its get_trade_dates call ended.
Returned(op) ==
    tool.pc = "returned" /\ tool.op = op /\ calls[ToolFrame].pc = "done"

\* The records of the table get_trade_dates returned to the tool, read by
\* the names of its columns; none when it raised.
Records ==
    LET res == calls[ToolFrame].result
        df == res.table
    IN  IF res.kind # "table" THEN {}
        ELSE {[calendar_date |-> df.rows[i][ColumnAt(df, F_calendar_date)],
               is_trading_day |-> df.rows[i][ColumnAt(df, F_is_trading_day)]] :
                 i \in 1..Len(df.rows)}

\* The returned records flagged "1".
OpenRecords == {rec \in Records : rec.is_trading_day = <<"1">>}

\* C15: get_latest_trading_date queries the calendar from day 1 to day 28 of
\* the current month, and returns the greatest calendar_date among the
\* returned records flagged "1" that is not after today; with no such
\* record it returns today's date.
C15_LatestIsGreatestOpenRecord ==
    Returned("get_latest_trading_date") =>
        LET today == Strftime(tool.now)
            upTo == {rec \in OpenRecords :
                        DayNumber(rec.calendar_date) <= ToOrdinal(tool.now)}
        IN  /\ SubSeq(tool.start_date, 1, 8) = SubSeq(today, 1, 8)
            /\ SubSeq(tool.start_date, 9, 10) = <<"0", "1">>
            /\ SubSeq(tool.end_date, 1, 8) = SubSeq(today, 1, 8)
            /\ SubSeq(tool.end_date, 9, 10) = <<"2", "8">>
            /\ calls[ToolFrame].queries <= 1
            /\ IF upTo = {} THEN tool.result = today
               ELSE \E rec \in upTo :
                       /\ tool.result = rec.calendar_date
                       /\ \A o \in upTo :
                             DayNumber(o.calendar_date)
                               <= DayNumber(rec.calendar_date)

\* On Sunday 2024-01-14, with the 28 records of January returned, the tool
\* has answered Friday 2024-01-12.
C15_Witness ==
    /\ Returned("get_latest_trading_date")
    /\ tool.now = Date(2024, 1, 14)
    /\ tool.cal = "weekdays"
    /\ Cardinality(Records) = 28
    /\ tool.result = <<"2", "0", "2", "4", "-", "0", "1", "-", "1", "2">>

\* get_trade_dates returned the provider's records to the tool, all of
\* them and under the provider's column names.
FullAnswer ==
    /\ calls[ToolFrame].result.kind = "table"
    /\ calls[ToolFrame].result.table.columns = TRADE_DATE_FIELDS
    /\ calls[ToolFrame].rs.error_code = CODE_OK

\* C16: get_latest_trading_date returns the most recent trading day as of
\* today: a date not after today that the provider's calendar flags as a
\* trading day, with no trading day after it up to and including today;
\* on days 29 to 31 of a month and at a month's start too.
C16_LatestIsMostRecentTradingDay ==
    Returned("get_latest_trading_date") /\ FullAnswer =>
        \E dt \in TradingDays(tool.cal) :
            /\ tool.result = Strftime(dt)
            /\ ToOrdinal(dt) <= ToOrdinal(tool.now)
            /\ \A o \in TradingDays(tool.cal) :
                  ~(ToOrdinal(dt) < ToOrdinal(o)
                      /\ ToOrdinal(o) <= ToOrdinal(tool.now))

\* The tool was called with a date that strptime accepts.
ValidDate == tool.parseExc = NoExc /\ Strptime(tool.date)[1] = NoExc

\* The returned records flagged "1" strictly before, and strictly after,
\* the tool's date.
OpenBefore ==
    {rec \in OpenRecords : DayNumber(rec.calendar_date) < DayNumber(tool.date)}
OpenAfter ==
    {rec \in OpenRecords : DayNumber(rec.calendar_date) > DayNumber(tool.date)}

\* C17: previous_trading_day queries the 30 days up to its date and returns
\* the greatest calendar date flagged "1" strictly before the date among the
\* returned records; next_trading_day queries the 30 days from its date and
\* returns the least flagged "1" strictly after it; the date itself is not
\* returned as a match, also when it is a trading day.
C17_ClosestOpenRecord ==
    /\ Returned("previous_trading_day") /\ ValidDate =>
          /\ tool.end_date = tool.date
          /\ DayNumber(tool.start_date) = DayNumber(tool.date) - 30
          /\ OpenBefore # {} =>
                /\ \E rec \in OpenBefore :
                      /\ tool.result = rec.calendar_date
                      /\ \A o \in OpenBefore :
                            DayNumber(o.calendar_date)
                              <= DayNumber(rec.calendar_date)
                /\ tool.result # tool.date
    /\ Returned("next_trading_day") /\ ValidDate =>
          /\ tool.start_date = tool.date
          /\ DayNumber(tool.end_date) = DayNumber(tool.date) + 30
          /\ OpenAfter # {} =>
                /\ \E rec \in OpenAfter :
                      /\ tool.result = rec.calendar_date
                      /\ \A o \in OpenAfter :
                            DayNumber(o.calendar_date)
                              >= DayNumber(rec.calendar_date)
                /\ tool.result # tool.date

\* previous_trading_day of Monday 2024-01-15, a trading day whose record was
\* returned with the 30 before it, has answered Friday 2024-01-12.
C17_Witness ==
    /\ Returned("previous_trading_day")
    /\ tool.date = <<"2", "0", "2", "4", "-", "0", "1", "-", "1", "5">>
    /\ [calendar_date |-> tool.date, is_trading_day |-> <<"1">>] \in Records
    /\ Cardinality(Records) = 31
    /\ tool.result = <<"2", "0", "2", "4", "-", "0", "1", "-", "1", "2">>

\* next_trading_day of Friday 2024-01-12 has answered Monday 2024-01-15.
C17_WitnessNext ==
    /\ Returned("next_trading_day")
    /\ tool.date = <<"2", "0", "2", "4", "-", "0", "1", "-", "1", "2">>
    /\ Cardinality(Records) = 31
    /\ tool.result = <<"2", "0", "2", "4", "-", "0", "1", "-", "1", "5">>

\* s is a date string.
IsDateString(s) == Strptime(s)[1] = NoExc

\* The distance in days between two date strings.
DaysApart(a, b) ==
    IF DayNumber(a) >= DayNumber(b) THEN DayNumber(a) - DayNumber(b)
    ELSE DayNumber(b) - DayNumber(a)

\* C18: previous_trading_day and next_trading_day never return a date more
\* than 30 days away from their date, and they return the date unchanged
\* when the returned records hold no trading day strictly before
\* (respectively after) it.
C18_WithinWindowOrUnchanged ==
    \A op \in {"previous_trading_day", "next_trading_day"} :
        Returned(op) /\ ValidDate =>
            /\ IsDateString(tool.result) =>
                  DaysApart(tool.result, tool.date) <= 30
            /\ calls[ToolFrame].result.kind = "table"
                 /\ (IF op = "previous_trading_day"
                     THEN OpenBefore ELSE OpenAfter) = {} =>
                  tool.result = tool.date

\* previous_trading_day of 2024-01-15, given 31 records of which none is a
\* trading day, has answered 2024-01-15.
C18_Witness ==
    /\ Returned("previous_trading_day")
    /\ tool.cal = "sparse"
    /\ Cardinality(Records) = 31
    /\ OpenRecords = {}
    /\ tool.date = <<"2", "0", "2", "4", "-", "0", "1", "-", "1", "5">>
    /\ tool.result = tool.date

\* next_trading_day of Friday 2024-01-12 has answered a date three days on.
C18_WitnessWithin ==
    /\ Returned("next_trading_day")
    /\ IsDateString(tool.result)
    /\ DaysApart(tool.result, tool.date) = 3

\* C19: the calendar helpers never raise and fall back to a sentinel date:
\* when get_trade_dates fails (LoginError, NoDataFoundError, DataSourceError
\* or any other exception), get_latest_trading_date returns today's date and
\* previous_trading_day and next_trading_day return their date.
C19_SentinelOnFailure ==
    /\ Returned("get_latest_trading_date")
         /\ calls[ToolFrame].result.kind = "error" =>
          tool.result = Strftime(tool.now)
    /\ \A op \in {"previous_trading_day", "next_trading_day"} :
          Returned(op) /\ calls[ToolFrame].result.kind = "error" =>
              tool.result = tool.date

\* "Error:"
ErrorPrefix == <<"E", "r", "r", "o", "r", ":">>

\* C20: is_trading_day queries the single-day range of its date; it returns
\* "Yes" exactly when the flag of the first returned record is "1" and "No"
\* for any other flag; a failed query, NoDataFoundError for an empty result
\* included, is returned as a string that begins with "Error:".
C20_IsTradingDayAnswer ==
    Returned("is_trading_day") =>
        LET res == calls[ToolFrame].result
            df == res.table
        IN  /\ tool.start_date = tool.date /\ tool.end_date = tool.date
            /\ res.kind = "table" =>
                  /\ Len(df.rows) >= 1
                  /\ tool.result \in {STR_YES, STR_NO}
                  /\ tool.result = <<"Y", "e", "s">> <=>
                        df.rows[1][ColumnAt(df, F_is_trading_day)] = <<"1">>
            /\ res.kind = "error" =>
                  /\ Len(tool.result) >= Len(ErrorPrefix)
                  /\ SubSeq(tool.result, 1, Len(ErrorPrefix)) = ErrorPrefix
                  /\ Contains(res.exc.msg, tool.result)

\* is_trading_day of 2024-01-25, for which the provider has no record, has
\* answered the NoDataFoundError as a string.
C20_Witness ==
    /\ Returned("is_trading_day")
    /\ tool.cal = "short"
    /\ tool.date = <<"2", "0", "2", "4", "-", "0", "1", "-", "2", "5">>
    /\ calls[ToolFrame].result.exc.type = "NoDataFoundError"
    /\ SubSeq(tool.result, 1, 6) = <<"E", "r", "r", "o", "r", ":">>

\* is_trading_day of Friday 2024-01-12 has answered "Yes".
C20_WitnessYes ==
    /\ Returned("is_trading_day")
    /\ tool.date = <<"2", "0", "2", "4", "-", "0", "1", "-", "1", "2">>
    /\ tool.result = <<"Y", "e", "s">>

(***************************************************************************)
(* get_market_analysis_timeframe, date_utils.py:67-148.  A month is a pair *)
(* <<year, month>>; datetime(year, month, 1) raises ValueError when the    *)
(* month is not one of 1..12.  The characters U+5E74 and U+6708 of the     *)
(* label are written "nian" and "yue".                                     *)
(***************************************************************************)
NIAN == "nian"
YUE == "yue"
MsgMonthRange == <<"m", "o", "n", "t", "h", " ", "m", "u", "s", "t", " ", "b", "e", " ", "i", "n", " ", "1", ".", ".", "1", "2">>

\* The day of the month that splits the "recent" window.
HALF_MONTH_DAY == 15

\* Fault variant of RecentStart: February is not treated apart.
RecentStart_NoFebruary(now) ==
    IF now.d < HALF_MONTH_DAY
    THEN IF now.m = 1 THEN <<now.y - 1, 11>> ELSE <<now.y, now.m - 2>>
    ELSE IF now.m = 1 THEN <<now.y - 1, 12>> ELSE <<now.y, now.m - 1>>

\* Fault variant of RecentStart: the day of the month is not looked at.
RecentStart_AnyDay(now) ==
    IF now.m = 1 THEN <<now.y - 1, 11>>
    ELSE IF now.m = 2 THEN <<now.y, 1>>
    ELSE <<now.y, now.m - 2>>

\* start_date of period "recent", lines 84-101.
RecentStart(now) ==
    IF now.d < HALF_MONTH_DAY
    THEN IF now.m = 1 THEN <<now.y - 1, 11>>
         ELSE IF now.m = 2 THEN <<now.y, 1>>
         ELSE <<now.y, now.m - 2>>
    ELSE IF now.m = 1 THEN <<now.y - 1, 12>> ELSE <<now.y, now.m - 1>>

\* middle_date of period "recent".
RecentMiddle(now) ==
    IF now.d < HALF_MONTH_DAY
    THEN IF now.m = 1 THEN <<now.y - 1, 12>>
         ELSE IF now.m = 2 THEN RecentStart(now)
         ELSE <<now.y, now.m - 1>>
    ELSE RecentStart(now)

\* Fault variant of QuarterStart: the year is not decremented.
QuarterStart_SameYear(now) ==
    IF now.m <= 3 THEN <<now.y, now.m + 9>> ELSE <<now.y, now.m - 3>>

\* start_date of period "quarter", lines 103-108.
QuarterStart(now) ==
    IF now.m <= 3 THEN <<now.y - 1, now.m + 9>> ELSE <<now.y, now.m - 3>>

\* start_date of period "half_year", lines 110-114.
HalfYearStart(now) ==
    IF now.m <= 6 THEN <<now.y - 1, now.m + 6>> ELSE <<now.y, now.m - 6>>

\* Fault variant of DefaultStart: January is not wrapped.
DefaultStart_NoWrap(now) == <<now.y, now.m - 1>>

\* start_date of any other period, lines 122-127.
DefaultStart(now) ==
    IF now.m = 1 THEN <<now.y - 1, 12>> ELSE <<now.y, now.m - 1>>

\* The month n months after start, as lines 115-116 and 120-121 compute it.
MonthsAfter(start, n) ==
    IF start[2] <= 12 - n THEN <<start[1], start[2] + n>>
    ELSE <<start[1] + 1, start[2] - (12 - n)>>

\* <<start_date, middle_date>> of a period.
Window(period, now) ==
    CASE period = "recent" -> <<RecentStart(now), RecentMiddle(now)>>
      [] period = "quarter" -> <<QuarterStart(now), QuarterStart(now)>>
      [] period = "half_year" ->
            <<HalfYearStart(now), MonthsAfter(HalfYearStart(now), 3)>>
      [] period = "year" ->
            <<(<<now.y - 1, now.m>>), MonthsAfter(<<now.y - 1, now.m>>, 6)>>
      [] OTHER -> <<DefaultStart(now), DefaultStart(now)>>

\* str(n) of an f-string field without a format specification.
Decimal(n) == Pad(n, 1)

\* Fault variant of DateRange: the middle month is never shown.
DateRange_NoMiddle(start, middle, end) ==
    LET YearMonth(ym) == Decimal(ym[1]) \o <<NIAN>> \o Decimal(ym[2]) \o <<YUE>>
        MonthOnly(ym) == Decimal(ym[2]) \o <<YUE>>
    IN
    IF start[1] # end[1]
    THEN YearMonth(start) \o <<"-">> \o YearMonth(end)
    ELSE IF start[2] # end[2]
    THEN YearMonth(start) \o <<"-">> \o MonthOnly(end)
    ELSE YearMonth(start)

\* date_range, lines 137-144: f"{year}<nian>{month}<yue>" for a year and a
\* month, f"{month}<yue>" for a month alone.
DateRange(start, middle, end) ==
    LET YearMonth(ym) == Decimal(ym[1]) \o <<NIAN>> \o Decimal(ym[2]) \o <<YUE>>
        MonthOnly(ym) == Decimal(ym[2]) \o <<YUE>>
    IN
    IF start[1] # end[1]
    THEN YearMonth(start) \o <<"-">> \o YearMonth(end)
    ELSE IF middle[2] # start[2] /\ middle[2] # end[2]
    THEN YearMonth(start) \o <<"-">> \o MonthOnly(middle) \o <<"-">>
         \o MonthOnly(end)
    ELSE IF start[2] # end[2]
    THEN YearMonth(start) \o <<"-">> \o MonthOnly(end)
    ELSE YearMonth(start)

\* get_month_end_day, lines 129-130.
GetMonthEndDay(year, month) == DaysInMonth(year, month)

\* Fault variant of IsoDate: the month and the day are not padded.
IsoDate_Unpadded(y, m, d) ==
    Decimal(y) \o <<"-">> \o Decimal(m) \o <<"-">> \o Decimal(d)

\* f"{year}-{month:02d}-{day:02d}", lines 133 and 135.
IsoDate(y, m, d) == Decimal(y) \o <<"-">> \o Pad(m, 2) \o <<"-">> \o Pad(d, 2)

IsoOpen == <<" ", "(", "I", "S", "O", ":", " ">>
IsoTo == <<" ", "t", "o", " ">>
IsoClose == <<")">>

\* What the tool does for a period on a day: the exception datetime()
\* raises for a month outside 1..12, or the string of line 146.
GetMarketAnalysisTimeframe(period, now) ==
    LET w == Window(period, now)
        start == w[1]
        middle == w[2]
        end == <<now.y, now.m>>
        end_day == IF GetMonthEndDay(now.y, now.m) < now.d
                   THEN GetMonthEndDay(now.y, now.m) ELSE now.d
    IN  IF start[2] \notin 1..12 \/ middle[2] \notin 1..12
        THEN [raised |-> Exc("ValueError", MsgMonthRange),
              start |-> start, middle |-> middle, result |-> <<>>]
        ELSE [raised |-> NoExc, start |-> start, middle |-> middle,
              result |-> DateRange(start, middle, end) \o IsoOpen
                         \o IsoDate(start[1], start[2], 1) \o IsoTo
                         \o IsoDate(now.y, now.m, end_day) \o IsoClose]

(***************************************************************************)
(* The timeframe tool called on any day of the modelled years, with each   *)
(* period the docstring names and two it does not.                         *)
(***************************************************************************)
PERIODS == {"recent", "quarter", "half_year", "year"}

\* get_market_analysis_timeframe(period) runs to its return or its raise.
TimeframeCall(Ps, Nows) ==
    /\ tool.pc = "idle"
    /\ \A c \in Calls : calls[c].pc = "idle"
    /\ \E period \in Ps, now \in Nows :
          LET r == GetMarketAnalysisTimeframe(period, now)
          IN  tool' = [ToolIdle EXCEPT !.pc = "returned",
                          !.op = "get_market_analysis_timeframe",
                          !.now = now, !.period = period,
                          !.start_date = r.start, !.middle_date = r.middle,
                          !.raised = r.raised, !.result = r.result]
    /\ UNCHANGED <<calls, session, stdout>>

NextFrame ==
    \/ TimeframeCall(PERIODS \cup {"month", ""}, AllDates)
    \/ ToolEnd

SpecFrame == Init /\ [][NextFrame]_vars

\* The timeframe tool has returned for this period.
Framed(period) ==
    /\ tool.pc = "returned"
    /\ tool.op = "get_market_analysis_timeframe"
    /\ tool.period = period

\* The month before today's, and the text "(ISO: <start> to <end>)" with
\* its leading space.
PrecedingMonth(now) ==
    IF now.m = 1 THEN <<now.y - 1, 12>> ELSE <<now.y, now.m - 1>>
FirstOf(ym) == Date(ym[1], ym[2], 1)
LastOf(ym) == Date(ym[1], ym[2], DaysInMonth(ym[1], ym[2]))
IsoPair(start, end) ==
    IsoOpen \o Strftime(start) \o IsoTo \o Strftime(end) \o IsoClose

\* C21 as stated: "recent" on the 15th or later returns the preceding
\* month alone, from its first to its last day, and the label names only
\* that month.
C21_RecentSecondHalfSingleMonth ==
    (Framed("recent") /\ tool.now.d >= 15) =>
        LET prev == PrecedingMonth(tool.now)
        IN  tool.result =
                Decimal(prev[1]) \o <<NIAN>> \o Decimal(prev[2]) \o <<YUE>>
                \o IsoPair(FirstOf(prev), LastOf(prev))

\* C21: "recent" on the 15th or later returns the window from the first day
\* of the preceding month to today, and the label names the preceding month
\* and today's month, each with its year when the call is made in January.
C21_RecentSecondHalfPrecedingMonthToToday ==
    (Framed("recent") /\ tool.now.d >= 15) =>
        LET prev == PrecedingMonth(tool.now)
            first == Decimal(prev[1]) \o <<NIAN>> \o Decimal(prev[2]) \o <<YUE>>
            last == Decimal(tool.now.m) \o <<YUE>>
        IN  /\ tool.raised = NoExc
            /\ tool.result =
                  first \o <<"-">>
                  \o (IF tool.now.m = 1
                      THEN Decimal(tool.now.y) \o <<NIAN>> ELSE <<>>)
                  \o last \o IsoPair(FirstOf(prev), tool.now)

C21_Witness ==
    /\ Framed("recent")
    /\ tool.now = Date(2024, 3, 20)
    /\ tool.result = <<"2", "0", "2", "4", NIAN, "2", YUE, "-", "3", YUE>>
                     \o IsoPair(Date(2024, 2, 1), Date(2024, 3, 20))

\* The month n calendar months before today's, by counting months.
MonthsBefore(now, n) ==
    LET k == now.y * 12 + (now.m - 1) - n
    IN  <<k \div 12, (k % 12) + 1>>

\* The <start> and the <end> of the text "(ISO: <start> to <end>)" that
\* closes the returned string.
IsoPairLen == Len(IsoPair(Date(2024, 1, 1), Date(2024, 1, 1)))
IsoStart ==
    IF Len(tool.result) >= IsoPairLen
    THEN SubSeq(tool.result, Len(tool.result) - 24, Len(tool.result) - 15)
    ELSE <<>>
IsoEnd ==
    IF Len(tool.result) >= IsoPairLen
    THEN SubSeq(tool.result, Len(tool.result) - 10, Len(tool.result) - 1)
    ELSE <<>>

\* C22: "recent" before the 15th starts on the first day of the month two
\* months before today's, November of the year before for a call in January,
\* except that a call in February starts on January 1 of the same year.
C22_RecentFirstHalfStart ==
    (Framed("recent") /\ tool.now.d < 15) =>
        /\ tool.raised = NoExc
        /\ tool.start_date = (IF tool.now.m = 2 THEN <<tool.now.y, 1>>
                              ELSE MonthsBefore(tool.now, 2))
        /\ IsoStart = Strftime(FirstOf(tool.start_date))

C22_Witness ==
    /\ Framed("recent")
    /\ tool.now = Date(2024, 1, 14)
    /\ IsoStart = <<"2", "0", "2", "3", "-", "1", "1", "-", "0", "1">>

C22_WitnessFebruary ==
    /\ Framed("recent")
    /\ tool.now = Date(2024, 2, 3)
    /\ IsoStart = <<"2", "0", "2", "4", "-", "0", "1", "-", "0", "1">>

\* How many months back each named period other than "recent" reaches.
MonthsBack(period) ==
    CASE period = "quarter" -> 3
      [] period = "half_year" -> 6
      [] period = "year" -> 12

\* C23: the window of "quarter", "half_year" and "year" starts on the first
\* day of the month exactly 3, 6 and 12 calendar months before today's, in
\* the year before when the subtraction crosses a year boundary.
C23_NamedPeriodStart ==
    \A period \in {"quarter", "half_year", "year"} :
        Framed(period) =>
            /\ tool.raised = NoExc
            /\ tool.start_date = MonthsBefore(tool.now, MonthsBack(period))
            /\ IsoStart = Strftime(FirstOf(MonthsBefore(tool.now,
                                                        MonthsBack(period))))

C23_Witness ==
    /\ Framed("quarter")
    /\ tool.now.m = 3
    /\ tool.now.y = 2024
    /\ IsoStart = <<"2", "0", "2", "3", "-", "1", "2", "-", "0", "1">>

\* The text before " (ISO: ...)" in the returned string.
LabelText ==
    IF Len(tool.result) >= IsoPairLen
    THEN SubSeq(tool.result, 1, Len(tool.result) - IsoPairLen)
    ELSE <<>>

\* The text of a year and a month, and of a month alone.
YearAndMonthText(y, m) == Decimal(y) \o <<NIAN>> \o Decimal(m) \o <<YUE>>
MonthText(m) == Decimal(m) \o <<YUE>>

\* C24: the label follows the table, read in order: two different years ->
\* year and month at both ends; else midpoint month different from the
\* start month and the end month -> start, middle and end months; else
\* start and end in the same month -> that month only; else -> start and
\* end months within one year.  The midpoint of "half_year" is 3 months
\* after the start, that of "year" 6 months after the start.
C24_LabelDecisionTable ==
    (tool.pc = "returned" /\ tool.op = "get_market_analysis_timeframe"
     /\ tool.raised = NoExc) =>
        LET sy == tool.start_date[1]
            sm == tool.start_date[2]
            mm == tool.middle_date[2]
            ey == tool.now.y
            em == tool.now.m
        IN  /\ LabelText =
                 (CASE sy # ey ->
                          YearAndMonthText(sy, sm) \o <<"-">>
                          \o YearAndMonthText(ey, em)
                    [] sy = ey /\ mm # sm /\ mm # em ->
                          YearAndMonthText(sy, sm) \o <<"-">> \o MonthText(mm)
                          \o <<"-">> \o MonthText(em)
                    [] sy = ey /\ ~(mm # sm /\ mm # em) /\ sm = em ->
                          YearAndMonthText(sy, sm)
                    [] OTHER ->
                          YearAndMonthText(sy, sm) \o <<"-">> \o MonthText(em))
            /\ tool.period = "half_year" =>
                  tool.middle_date = MonthsBefore(FirstOf(tool.start_date), -3)
            /\ tool.period = "year" =>
                  tool.middle_date = MonthsBefore(FirstOf(tool.start_date), -6)

C24_Witness ==
    /\ Framed("half_year")
    /\ tool.now = Date(2024, 9, 9)
    /\ LabelText = <<"2", "0", "2", "4", NIAN, "3", YUE, "-", "6", YUE, "-",
                     "9", YUE>>

C24_WitnessTwoYears ==
    /\ Framed("year")
    /\ tool.middle_date = <<2024, 4>>
    /\ LabelText = <<"2", "0", "2", "3", NIAN, "1", "0", YUE, "-",
                     "2", "0", "2", "4", NIAN, "1", "0", YUE>>

\* s has the shape YYYY-MM-DD.
IsYyyyMmDd(s) ==
    /\ Len(s) = 10
    /\ \A i \in 1..10 : IF i \in {5, 8} THEN s[i] = "-" ELSE IsDigit(s[i])

\* Today's date with its day clamped to the last valid day of its month.
ClampedToday ==
    Date(tool.now.y, tool.now.m,
         IF tool.now.d > DaysInMonth(tool.now.y, tool.now.m)
         THEN DaysInMonth(tool.now.y, tool.now.m) ELSE tool.now.d)

\* C25: for every period and every date the returned string ends with
\* "(ISO: <start> to <end>)", <start> being the first day of the window's
\* start month and <end> today's date, day clamped to the month's last day,
\* both written YYYY-MM-DD.
C25_IsoPairClosesResult ==
    (tool.pc = "returned" /\ tool.op = "get_market_analysis_timeframe"
     /\ tool.raised = NoExc) =>
        /\ Len(tool.result) > IsoPairLen
        /\ SubSeq(tool.result, Len(tool.result) - IsoPairLen + 1,
                  Len(tool.result))
             = IsoOpen \o IsoStart \o IsoTo \o IsoEnd \o IsoClose
        /\ IsYyyyMmDd(IsoStart)
        /\ IsYyyyMmDd(IsoEnd)
        /\ Strptime(IsoStart) = <<NoExc, FirstOf(tool.start_date)>>
        /\ Strptime(IsoEnd) = <<NoExc, ClampedToday>>

C25_Witness ==
    /\ Framed("year")
    /\ tool.now = Date(2024, 2, 29)
    /\ IsoStart = <<"2", "0", "2", "3", "-", "0", "2", "-", "0", "1">>
    /\ IsoEnd = <<"2", "0", "2", "4", "-", "0", "2", "-", "2", "9">>

\* C30: for every date and every period string, the named ones or not, the
\* tool returns without raising: the start and the midpoint months lie in
\* 1..12, the start date is not later than the end date, and a period
\* outside the named ones gives the window from the first day of the
\* preceding month up to today.
C30_TimeframeTotal ==
    (tool.pc = "returned" /\ tool.op = "get_market_analysis_timeframe") =>
        /\ tool.raised = NoExc
        /\ tool.start_date[2] \in 1..12
        /\ tool.middle_date[2] \in 1..12
        /\ \/ tool.start_date[1] < tool.now.y
           \/ /\ tool.start_date[1] = tool.now.y
              /\ tool.start_date[2] <= tool.now.m
        /\ StrLe(IsoStart, IsoEnd)
        /\ tool.period \notin PERIODS =>
              /\ tool.start_date = PrecedingMonth(tool.now)
              /\ IsoStart = Strftime(FirstOf(PrecedingMonth(tool.now)))
              /\ IsoEnd = Strftime(tool.now)

C30_Witness ==
    /\ Framed("month")
    /\ tool.now = Date(2024, 1, 31)
    /\ IsoStart = <<"2", "0", "2", "3", "-", "1", "2", "-", "0", "1">>
    /\ IsoEnd = <<"2", "0", "2", "4", "-", "0", "1", "-", "3", "1">>

C30_WitnessLeapDay ==
    /\ Framed("")
    /\ tool.now = Date(2024, 2, 29)
    /\ tool.raised = NoExc

(***************************************************************************)
(* normalize_stock_code, helpers.py:27-76.                                 *)
(***************************************************************************)
MsgCodeRequired == <<"E", "r", "r", "o", "r", ":", " ", "'", "c", "o", "d", "e", "'", " ", "i", "s", " ", "r", "e", "q", "u", "i", "r", "e", "d", ".">>
MsgUnsupported == <<"E", "r", "r", "o", "r", ":", " ", "U", "n", "s", "u", "p", "p", "o", "r", "t", "e", "d", " ", "c", "o", "d", "e", " ", "f", "o", "r", "m", "a", "t", ".", " ", "E", "x", "a", "m", "p", "l", "e", "s", ":", " ", "'", "s", "h", ".", "6", "0", "0", "0", "0", "0", "'", ",", " ", "'", "6", "0", "0", "0", "0", "0", "'", ",", " ", "'", "0", "0", "0", "0", "0", "1", ".", "S", "Z", "'", ".">>
MsgGlobalFlags == <<"g", "l", "o", "b", "a", "l", " ", "f", "l", "a", "g", "s", " ", "n", "o", "t", " ", "a", "t", " ", "t", "h", "e", " ", "s", "t", "a", "r", "t", " ", "o", "f", " ", "t", "h", "e", " ", "e", "x", "p", "r", "e", "s", "s", "i", "o", "n", " ", "a", "t", " ", "p", "o", "s", "i", "t", "i", "o", "n", " ", "1", "2">>

\* The interpreters the server can run on.  From Python 3.11 on, re.compile
\* raises re.error for an inline flag that is not at the start of the
\* pattern; before, it warns and applies the flag to the whole pattern.
PYTHONS == {"3.10", "3.11"}

\* str.strip()
RECURSIVE LStrip(_)
LStrip(s) ==
    IF Len(s) > 0 /\ s[1] \in {" ", "\t", "\n"} THEN LStrip(Tail(s)) ELSE s
Strip(s) == Reverse(LStrip(Reverse(LStrip(s))))

\* \d{6}
SixDigits(s) == Len(s) = 6 /\ \A i \in 1..6 : IsDigit(s[i])

\* (sh|sz) under re.IGNORECASE
Exchange(s) == Lower(s) \in {<<"s", "h">>, <<"s", "z">>}

\* re.fullmatch(r"(?i)(sh|sz)[\.]?(\d{6})", raw), line 55: whether it
\* matches, and its groups 1 and 2.
MatchPrefixed(raw) ==
    LET n == Len(raw)
        ok == /\ n \in {8, 9}
              /\ Exchange(SubSeq(raw, 1, 2))
              /\ n = 9 => raw[3] = "."
              /\ SixDigits(SubSeq(raw, n - 5, n))
    IN  IF ok THEN <<TRUE, SubSeq(raw, 1, 2), SubSeq(raw, n - 5, n)>>
        ELSE <<FALSE, <<>>, <<>>>>

\* re.fullmatch(r"(\d{6})[\.]?(?i)(sh|sz)", raw), line 61, where the
\* pattern compiles: whether it matches, and its groups 1 and 2.
MatchSuffixed(raw) ==
    LET n == Len(raw)
        ok == /\ n \in {8, 9}
              /\ SixDigits(SubSeq(raw, 1, 6))
              /\ n = 9 => raw[7] = "."
              /\ Exchange(SubSeq(raw, n - 1, n))
    IN  IF ok THEN <<TRUE, SubSeq(raw, 1, 6), SubSeq(raw, n - 1, n)>>
        ELSE <<FALSE, <<>>, <<>>>>

\* normalize_stock_code(code) on an interpreter.
NormalizeStockCode(code, python) ==
    LET raw == Strip(code)
        m == MatchPrefixed(raw)
        m2 == MatchSuffixed(raw)
        Normalized(ex, num) == ex \o <<".">> \o num
    IN  IF raw = <<>> THEN MsgCodeRequired
        ELSE IF m[1] THEN Normalized(Lower(m[2]), m[3])
        ELSE IF python = "3.11" THEN PfxError \o MsgGlobalFlags
        ELSE IF m2[1] THEN Normalized(Lower(m2[3]), m2[2])
        ELSE IF SixDigits(raw)
        THEN Normalized(IF raw[1] = "6" THEN <<"s", "h">> ELSE <<"s", "z">>,
                        raw)
        ELSE MsgUnsupported

(***************************************************************************)
(* normalize_stock_code called with codes of every shape it names, on      *)
(* either interpreter, and called again with what it returned.             *)
(***************************************************************************)
\* The codes the callers pass, by shape: six digits, an exchange before the
\* digits, an exchange after them, and strings of no accepted shape.
CodeShapes ==
    LET Numbers == { <<"6", "0", "0", "0", "0", "0">>,
                     <<"0", "0", "0", "0", "0", "1">>,
                     <<"3", "0", "0", "7", "5", "0">> }
        Spellings == { <<"s", "h">>, <<"s", "z">>, <<"S", "H">>, <<"S", "Z">>,
                       <<"S", "h">>, <<"s", "Z">> }
        Dots == { <<>>, <<".">> }
    IN  [digits |-> Numbers,
         prefixed |-> { ex \o dot \o num :
                           ex \in Spellings, dot \in Dots, num \in Numbers },
         suffixed |-> { num \o dot \o ex :
                           ex \in Spellings, dot \in Dots, num \in Numbers },
         other |-> { <<>>, <<" ", " ">>,
                     <<" ", "6", "0", "0", "0", "0", "0", " ">>,
                     <<"6", "0", "0", "0", "0">>,
                     <<"6", "0", "0", "0", "0", "0", "0">>,
                     <<"s", "h", "-", "6", "0", "0", "0", "0", "0">>,
                     <<"6", "0", "0", "0", "0", "0", ".", "S", "S">> }]

\* normalize_stock_code(code) runs to its return.
NormalizeCall(Cs, Pys) ==
    /\ tool.pc = "idle"
    /\ \A c \in Calls : calls[c].pc = "idle"
    /\ \E code \in Cs, python \in Pys :
          tool' = [ToolIdle EXCEPT !.pc = "returned",
                      !.op = "normalize_stock_code", !.code = code,
                      !.python = python,
                      !.result = NormalizeStockCode(code, python)]
    /\ UNCHANGED <<calls, session, stdout>>

\* The caller passes the returned string to normalize_stock_code again.
NormalizeAgain ==
    /\ tool.pc = "returned"
    /\ tool.op = "normalize_stock_code"
    /\ tool.again = <<>>
    /\ tool' = [tool EXCEPT !.again = NormalizeStockCode(tool.result,
                                                         tool.python)]
    /\ UNCHANGED <<calls, session, stdout>>

NextNorm ==
    \/ NormalizeCall(UNION {CodeShapes[k] : k \in DOMAIN CodeShapes}, PYTHONS)
    \/ NormalizeAgain
    \/ ToolEnd

SpecNorm == Init /\ [][NextNorm]_vars

\* C26: for every string c of exactly six digits, normalize_stock_code(c)
\* returns "sh." + c when c starts with "6" and "sz." + c otherwise.
C26_SixDigitsByFirstDigit ==
    (tool.pc = "returned" /\ tool.op = "normalize_stock_code"
     /\ SixDigits(tool.code)) =>
        tool.result = (IF tool.code[1] = "6" THEN <<"s", "h", ".">>
                       ELSE <<"s", "z", ".">>) \o tool.code

C26_Witness ==
    /\ tool.pc = "returned"
    /\ tool.op = "normalize_stock_code"
    /\ tool.code = <<"6", "0", "0", "0", "0", "0">>
    /\ tool.python = "3.10"
    /\ tool.result = <<"s", "h", ".", "6", "0", "0", "0", "0", "0">>

\* The codes of an accepted shape, those with the exchange in front and
\* those with the exchange behind.
PrefixedCodes == CodeShapes.prefixed
SuffixedCodes == CodeShapes.suffixed
AcceptedCodes == CodeShapes.digits \cup PrefixedCodes \cup SuffixedCodes

\* normalize_stock_code has returned for its own result as well.
NormalizedTwice ==
    /\ tool.pc = "returned"
    /\ tool.op = "normalize_stock_code"
    /\ tool.again # <<>>

\* C27: on every accepted input shape normalize(normalize(x)) = normalize(x),
\* and an exchange written in x, before or after the digits, is the one of
\* the result rather than the one the first digit would give.
C27_IdempotentKeepsExchange ==
    (NormalizedTwice /\ tool.code \in AcceptedCodes) =>
        LET n == Len(tool.code)
        IN  /\ tool.again = tool.result
            /\ tool.code \in PrefixedCodes =>
                  tool.result = Lower(SubSeq(tool.code, 1, 2)) \o <<".">>
                                \o SubSeq(tool.code, n - 5, n)
            /\ tool.code \in SuffixedCodes =>
                  tool.result = Lower(SubSeq(tool.code, n - 1, n)) \o <<".">>
                                \o SubSeq(tool.code, 1, 6)

\* What holds of the accepted shapes on either interpreter.
IdempotentOnAccepted ==
    (NormalizedTwice /\ tool.code \in AcceptedCodes) =>
        tool.again = tool.result
PrefixKept ==
    (NormalizedTwice /\ tool.code \in PrefixedCodes) =>
        tool.result = Lower(SubSeq(tool.code, 1, 2)) \o <<".">>
                      \o SubSeq(tool.code, Len(tool.code) - 5, Len(tool.code))

(***************************************************************************)
(* Facade calls that run in threads.  Standard output is one descriptor of *)
(* the process, and another thread can run between any two of the system   *)
(* calls of baostock_login_context: each redirection is three steps, the   *)
(* dup and dup2 that save and redirect, the provider call, and the dup2    *)
(* that restores what was saved.                                           *)
(***************************************************************************)

\* utils.py:52-57: saved_stdout_fd = os.dup(fd), os.dup2(devnull_fd, fd).
LoginRedirect(c) ==
    /\ calls[c].pc = "login"
    /\ Put(c, [calls[c] EXCEPT !.pc = "login_call", !.saved = stdout])
    /\ stdout' = Redirected(stdout)
    /\ UNCHANGED <<session, tool>>

\* utils.py:60: bs.login() returns its result, or raises past the restore.
LoginCall(c, Ls, Es) ==
    /\ calls[c].pc = "login_call"
    /\ LET r == [calls[c] EXCEPT !.logins = @ + 1]
       IN  \/ \E lg \in Ls :
                /\ session' = IF lg.error_code = CODE_OK THEN TRUE ELSE session
                /\ Put(c, [r EXCEPT !.lg = lg, !.pc = "login_restore"])
           \/ \E e \in Es :
                /\ Put(c, ToHandler([r EXCEPT !.loginExc = e], e))
                /\ session' = session
    /\ UNCHANGED <<stdout, tool>>

\* utils.py:64-70: os.dup2(saved_stdout_fd, fd), then the code check.
LoginRestore(c) ==
    /\ calls[c].pc = "login_restore"
    /\ stdout' = Restored(calls[c].saved)
    /\ LET r == [calls[c] EXCEPT !.saved = "none"]
       IN  Put(c, IF LoginFailed(r.lg) THEN ToHandler(r, LoginErrorOf(r.lg))
                  ELSE [r EXCEPT !.pc = "query"])
    /\ UNCHANGED <<session, tool>>

\* utils.py:77-82: the finally clause saves and redirects again.
LogoutRedirect(c) ==
    /\ calls[c].pc = "logout"
    /\ Put(c, [calls[c] EXCEPT !.pc = "logout_call", !.saved = stdout])
    /\ stdout' = Redirected(stdout)
    /\ UNCHANGED <<session, tool>>

\* utils.py:85: bs.logout() returns, or raises past the restore.
LogoutCall(c, Es) ==
    /\ calls[c].pc = "logout_call"
    /\ LET r == [calls[c] EXCEPT !.logouts = @ + 1]
       IN  \/ /\ session' = FALSE
              /\ Put(c, [r EXCEPT !.pc = "logout_restore"])
           \/ \E e \in Es :
                /\ session' \in BOOLEAN
                /\ Put(c, [r EXCEPT !.pc = "handler", !.exc = e,
                                    !.ret = NoTable, !.logoutExc = e])
    /\ UNCHANGED <<stdout, tool>>

\* utils.py:89-90: os.dup2(saved_stdout_fd, fd); the with statement is left.
LogoutRestore(c) ==
    /\ calls[c].pc = "logout_restore"
    /\ stdout' = Restored(calls[c].saved)
    /\ LET r == [calls[c] EXCEPT !.saved = "none"]
       IN  Put(c, IF r.exc # NoExc THEN [r EXCEPT !.pc = "handler"]
                  ELSE [r EXCEPT !.pc = "done",
                                 !.result = [kind |-> "table", table |-> r.ret,
                                             exc |-> NoExc]])
    /\ UNCHANGED <<session, tool>>

\* The provider's login and logout do not raise here: what becomes of the
\* descriptor is the doing of the threads alone.
NextThreads ==
    \E c \in Calls :
        \/ Begin(c, {"get_trade_dates"}, {NoFields}, FALSE)
        \/ LoginRedirect(c)
        \/ LoginCall(c, ConcLoginResults, {})
        \/ LoginRestore(c)
        \/ Query(c, ConcCursors, ConcExcs)
        \/ RsNext(c, {}, ConcExcs)
        \/ Build(c)
        \/ LogoutRedirect(c)
        \/ LogoutCall(c, {})
        \/ LogoutRestore(c)
        \/ Handler(c)
        \/ Return(c)

SpecThreads == Init /\ [][NextThreads]_vars

\* C28: when several facade calls have run concurrently, each saving,
\* redirecting and restoring standard output around its login and its
\* logout, standard output is the original stream once all of them have
\* finished.
C28_StdoutRestoredAfterConcurrentCalls ==
    (\A c \in Calls : calls[c].pc \in {"idle", "done"}) =>
        stdout = STDOUT_ORIGINAL

\* The frame of a get_historical_k_data call whose field list holds an item
\* that is not a string.
RejectedKLine(r) ==
    r.method = "get_historical_k_data" /\ HasNonStr(r.fields)

\* C29: get_historical_k_data validates its field list before it acquires
\* the session: with an item that is not a string it raises ValueError having
\* issued no login, no query and no logout, and no step of the call changes
\* the provider's login state or standard output.
C29_ValidationBeforeSession ==
    [][\A c \in Calls :
          /\ RejectedKLine(calls'[c]) =>
                /\ calls'[c].logins = 0
                /\ calls'[c].queries = 0
                /\ calls'[c].reads = 0
                /\ calls'[c].logouts = 0
                /\ calls'[c].pc \in {"handler", "done"}
                /\ calls'[c].pc = "handler" =>
                      calls'[c].exc.type = "ValueError"
                /\ calls'[c].pc = "done" =>
                      calls'[c].result.exc.type = "ValueError"
          /\ (RejectedKLine(calls[c]) \/ RejectedKLine(calls'[c]))
             /\ calls'[c] # calls[c] =>
                /\ session' = session
                /\ stdout' = stdout]_vars

\* A rejected K-line call has returned its ValueError while the provider is
\* still logged in from an earlier call, and no logout was issued for it.
C29_Witness ==
    \E c \in Calls :
        /\ RejectedKLine(calls[c])
        /\ calls[c].pc = "done"
        /\ calls[c].result.exc.type = "ValueError"
        /\ calls[c].logins = 0
        /\ calls[c].logouts = 0
        /\ session = TRUE

====
